---- MODULE Spec2Model ----
(***************************************************************************)
(* A model of the MentraOS Python SDK session layer:                       *)
(*   - EventManager      (mentraos/events/event_manager.py)                *)
(*   - SubscriptionManager / AppSession (protocol/subscriptions.py,        *)
(*     core/app_session.py)                                                *)
(*   - WebSocketClient   (mentraos/core/websocket_client.py)               *)
(* Every asyncio task is a process of the model; a step of the model is    *)
(* the code a task runs between two suspension points (awaits that really  *)
(* suspend).                                                               *)
(***************************************************************************)
EXTENDS Integers, Sequences, FiniteSets, TLC

(***************************************************************************)
(* Bounds of the model                                                     *)
(***************************************************************************)
\* calls of on(), once(), emit() and stop() of the event manager in one
\* behaviour
MaxCalls == 4
\* messages accepted by WebSocketClient.send in one behaviour
MaxMsgs == 3
\* physical links opened in one behaviour
MaxLinks == 2
\* physical links opened in one behaviour of SpecConnect
MaxLinksConnect == 3
\* failed reconnect attempts in a row
MaxFails == 8
\* failed reconnect attempts in a row in SpecReconnect
MaxRetries == 2
\* physical links opened in one behaviour of the inbound specifications
MaxLinksInbound == 1

(***************************************************************************)
(* EventManager: state                                                     *)
(***************************************************************************)
VARIABLES
    handlers,       \* _handlers: event key -> list of handler entries
    ev_running,     \* _running
    event_queue,    \* _event_queue (FIFO, unbounded; None is the sentinel)
    dispatch_pc,    \* _dispatch_task: "none" | "top" | "wait" | "gather" | "done"
    cur_event,      \* the event the dispatch loop holds
    tasks,          \* handler tasks created by the loop, not yet collected
    nextEvent,      \* history: number of emit() calls so far
    nextReg,        \* history: number of wrappers made by once() so far
    dispatched,     \* history: ids of the events dequeued, in order
    expected,       \* history: event id -> handlers registered at its dequeue
    invoked,        \* history: event id -> handler invocations started
    evKey,          \* history: event id -> event key
    onceReg,        \* history: once-wrapper id -> [key, at] of its registration
    onceCalls,      \* history: once-wrapper id -> event ids it was invoked for
    calls,          \* history: number of on/once/emit/stop calls so far
    raised          \* history: ids of the events a handler raised for

evVars == <<handlers, ev_running, event_queue, dispatch_pc, cur_event, tasks,
            nextEvent, nextReg, dispatched, expected, invoked, evKey,
            onceReg, onceCalls, calls, raised>>

(***************************************************************************)
(* AppSession: state                                                       *)
(***************************************************************************)
VARIABLES
    subscriptions,  \* SubscriptionManager._subscriptions
    connected,      \* AppSession._connected
    authenticated,  \* AppSession._authenticated
    lastCall        \* history: the last subscribe()/unsubscribe() call

sessVars == <<subscriptions, connected, authenticated, lastCall>>

(***************************************************************************)
(* WebSocketClient: state                                                  *)
(***************************************************************************)
VARIABLES
    send_queue,     \* _send_queue (FIFO, unbounded)
    nextMsg         \* history: number of messages accepted by send()

queueVars == <<send_queue, nextMsg>>

VARIABLES
    links,          \* every physical link opened so far: "open" | "closing" | "closed"
    rl,             \* the receive loop of each link: "run" | "cancel" | "ended"
    websocket,      \* _websocket: 0 (None) or a link
    ws_running,     \* _running
    receive_task,   \* _receive_task: 0 (None) or the link whose loop it is
    rtasks,         \* the _reconnect tasks: [pc, delay, k, first, link]
    reconnect_task, \* _reconnect_task: 0 (None) or an index of rtasks
    appc,           \* application callers of connect(): "idle" | "waitlock" | "opening"
    lock,           \* _connection_lock: <<>> (free) or its holder
    cur_interval,   \* _current_reconnect_interval, in 1/Scale seconds
    sendLoops,      \* number of _send_loop tasks waiting in get / in sleep
    disc,           \* the caller of disconnect(): [pc, link]
    maxSent,        \* history: the largest id transmitted so far (ids follow enqueue order)
    lastAttempt,    \* history: the last iteration of a send loop that got a message
    fails,          \* history: failed reconnect attempts since the last successful connect
    openedAfter,    \* history: the latest link was opened after a failed reconnect attempt
    requeued        \* history: ids of the queued messages that were put back

wsVars == <<links, rl, websocket, ws_running, receive_task, rtasks,
            reconnect_task, appc, lock, cur_interval, sendLoops, disc, maxSent, lastAttempt,
            fails, openedAfter, requeued>>

(***************************************************************************)
(* The inbound side of a link and the callers of AppSession.stop()          *)
(***************************************************************************)
VARIABLES
    inq,            \* the frames received on each link and not yet read by its loop
    nextFrame,      \* history: number of frames that arrived so far
    delivered,      \* history: the frames passed to on_message, in order: [id, link]
    dropped,        \* history: the frames json.loads rejected: [id, link]
    badIds,         \* history: ids of the text frames that are not valid JSON
    lastFrame       \* history: the last frame a receive loop handled

inVars == <<inq, nextFrame, delivered, dropped, badIds, lastFrame>>

VARIABLES
    stopc,          \* the caller of AppSession.stop(): [pc, by]
    cb,             \* history: on_disconnect callbacks since the last connect
    lastSend,       \* history: the last call of AppSession.send
    lastStop        \* history: what the last stop() that returned left behind

stopVars == <<stopc, cb, lastSend, lastStop>>

(***************************************************************************)
(* MentraOSOutputTransport and MP3StreamEncoder: state                     *)
(***************************************************************************)
VARIABLES
    tts_active,             \* _tts_active
    current_tts_filename,   \* _current_tts_filename: 0 (None) or a stream
    mp3,                    \* the encoder object: [encoder, file_handle, current_file]
    files,                  \* the output directory: one entry per stream started
    audio_start_time,       \* _audio_start_time is set (not None)
    total_audio_samples,    \* _total_audio_samples
    stasks,                 \* the _send_silent_frames tasks: [pc, frames, sent]
    silent_frames_task,     \* _silent_frames_task: 0 (None) or an index of stasks
    lastPace                \* history: the last frame or call the transport handled

paceVars == <<tts_active, current_tts_filename, mp3, files, audio_start_time,
              total_audio_samples, stasks, silent_frames_task, lastPace>>

VARIABLES
    routerStop,     \* history: the caller of EventManager.stop() and its return
    wireSubs,       \* history: the last subscription update put on a link
    wireFirst       \* history: the first message put on the latest link used

ghostVars == <<routerStop, wireSubs, wireFirst>>

VARIABLES
    srv,            \* AppServer: the sessions created (objs), _sessions,
                    \* _session_tasks, the _cleanup_session calls that are
                    \* suspended, and as history the calls that raised
    shut,           \* AppServer.stop(): its position and the ids it has left
    stopReqs        \* history: the stop requests received

srvVars == <<srv, shut, stopReqs>>

vars == <<evVars, sessVars, queueVars, wsVars, inVars, stopVars, paceVars,
          ghostVars, srvVars>>

\* An event type is an EventType member or a plain string.
EventTypeMembers == { [kind |-> "enum", name |-> "TRANSCRIPTION"] }
PlainTypes == { [kind |-> "str", name |-> "transcription"] }
\* the plain callables the application registers (wrappers of once() are
\* numbered from 1)
Callables == {0}
TopicArgs == EventTypeMembers \cup PlainTypes

\* str(event_type): a (str, Enum) member prints as "EventType.NAME", a plain
\* string as itself.
EventKey(x) == IF x.kind = "enum" THEN "EventType." \o x.name ELSE x.name

EventKeys == { EventKey(x) : x \in TopicArgs }

Sentinel == [id |-> 0, key |-> "None"]

\* the list stored under a key (defaultdict(list).get(key, []))
HandlersFor(key) == IF key \in DOMAIN handlers THEN handlers[key] ELSE <<>>

\* list.remove(x): removes the first occurrence
RECURSIVE RemoveFirst(_, _)
RemoveFirst(s, x) ==
    IF s = <<>> THEN <<>>
    ELSE IF Head(s) = x THEN Tail(s)
    ELSE <<Head(s)>> \o RemoveFirst(Tail(s), x)

InSeq(s, x) == \E i \in 1 .. Len(s) : s[i] = x

\* mutant: the closure returned by on() removes nothing
UnregisterHandler_Noop(hs, key, h) == hs

\* the closure returned by on(): removes the handler if it is still listed
UnregisterHandler(hs, key, h) ==
    IF InSeq(hs[key], h) THEN [hs EXCEPT ![key] = RemoveFirst(@, h)] ELSE hs

Finished(t) == t.st \in {"done", "failed"}

EvInit ==
    /\ handlers = [k \in EventKeys |-> <<>>]
    /\ ev_running = TRUE
    /\ event_queue = <<>>
    /\ dispatch_pc = "none"
    /\ cur_event = Sentinel
    /\ tasks = <<>>
    /\ nextEvent = 0
    /\ nextReg = 0
    /\ dispatched = <<>>
    /\ expected = [e \in {} |-> 0]
    /\ invoked = [e \in {} |-> 0]
    /\ evKey = [e \in {} |-> ""]
    /\ onceReg = [w \in {} |-> 0]
    /\ onceCalls = [w \in {} |-> <<>>]
    /\ calls = 0
    /\ raised = {}

(***************************************************************************)
(* EventManager: operations                                                *)
(***************************************************************************)

\* start()
EvStart ==
    /\ dispatch_pc \in {"none", "done"}
    /\ ev_running' = TRUE
    /\ dispatch_pc' = "top"
    /\ UNCHANGED <<handlers, event_queue, cur_event, tasks, nextEvent, nextReg,
                   dispatched, expected, invoked, evKey, onceReg, onceCalls, calls, raised>>
    /\ UNCHANGED <<sessVars, queueVars, wsVars>>
    /\ UNCHANGED <<inVars, stopVars>>
    /\ UNCHANGED <<paceVars, ghostVars, srvVars>>

\* stop(), called from outside the handlers: _running is cleared and, while
\* the dispatch task is alive, the sentinel is queued.
EvStop ==
    /\ calls < MaxCalls
    /\ calls' = calls + 1
    /\ ev_running' = FALSE
    /\ event_queue' = IF dispatch_pc \in {"none", "done"}
                         THEN event_queue
                         ELSE Append(event_queue, Sentinel)
    /\ UNCHANGED <<handlers, dispatch_pc, cur_event, tasks, nextEvent, nextReg,
                   dispatched, expected, invoked, evKey, onceReg, onceCalls, raised>>
    /\ UNCHANGED <<sessVars, queueVars, wsVars>>
    /\ UNCHANGED <<inVars, stopVars>>
    /\ UNCHANGED <<paceVars, ghostVars, srvVars>>

\* on(event_type, handler)
On(x, f) ==
    /\ calls < MaxCalls
    /\ calls' = calls + 1
    /\ handlers' = [handlers EXCEPT
                       ![EventKey(x)] = Append(@, [fn |-> f, once |-> FALSE])]
    /\ UNCHANGED <<nextReg, ev_running, event_queue, dispatch_pc, cur_event, tasks,
                   nextEvent, dispatched, expected, invoked, evKey, onceReg,
                   onceCalls, raised>>
    /\ UNCHANGED <<sessVars, queueVars, wsVars>>
    /\ UNCHANGED <<inVars, stopVars>>
    /\ UNCHANGED <<paceVars, ghostVars, srvVars>>

\* once(event_type, handler): a fresh wrapper is registered with on()
Once(x) ==
    /\ calls < MaxCalls
    /\ calls' = calls + 1
    /\ nextReg' = nextReg + 1
    /\ LET w == nextReg + 1 IN
        /\ handlers' = [handlers EXCEPT
                           ![EventKey(x)] = Append(@, [fn |-> w, once |-> TRUE])]
        /\ onceReg' = [v \in DOMAIN onceReg \cup {w} |->
                          IF v = w THEN [key |-> EventKey(x), at |-> Len(dispatched)]
                                   ELSE onceReg[v]]
        /\ onceCalls' = [v \in DOMAIN onceCalls \cup {w} |->
                            IF v = w THEN <<>> ELSE onceCalls[v]]
    /\ UNCHANGED <<ev_running, event_queue, dispatch_pc, cur_event, tasks,
                   nextEvent, dispatched, expected, invoked, evKey, raised>>
    /\ UNCHANGED <<sessVars, queueVars, wsVars>>
    /\ UNCHANGED <<inVars, stopVars>>
    /\ UNCHANGED <<paceVars, ghostVars, srvVars>>

\* the closure returned by on()/once(), called by the application
Unregister(key, h) ==
    /\ InSeq(handlers[key], h)
    /\ handlers' = UnregisterHandler(handlers, key, h)
    /\ UNCHANGED <<ev_running, event_queue, dispatch_pc, cur_event, tasks,
                   nextEvent, nextReg, dispatched, expected, invoked, evKey,
                   onceReg, onceCalls, calls, raised>>
    /\ UNCHANGED <<sessVars, queueVars, wsVars>>
    /\ UNCHANGED <<inVars, stopVars>>
    /\ UNCHANGED <<paceVars, ghostVars, srvVars>>

\* emit(event): Queue.put on an unbounded queue never suspends
Emit(x) ==
    /\ calls < MaxCalls
    /\ calls' = calls + 1
    /\ nextEvent' = nextEvent + 1
    /\ event_queue' = Append(event_queue,
                             [id |-> nextEvent + 1, key |-> EventKey(x)])
    /\ evKey' = [e \in DOMAIN evKey \cup {nextEvent + 1} |->
                    IF e = nextEvent + 1 THEN EventKey(x) ELSE evKey[e]]
    /\ UNCHANGED <<handlers, ev_running, dispatch_pc, cur_event, tasks, nextReg,
                   dispatched, expected, invoked, onceReg, onceCalls, raised>>
    /\ UNCHANGED <<sessVars, queueVars, wsVars>>
    /\ UNCHANGED <<inVars, stopVars>>
    /\ UNCHANGED <<paceVars, ghostVars, srvVars>>

\* Queue.get(): the oldest item
QueueGet(q) == Head(q)

\* mutant: the loop waits for the first handler only (FIRST_COMPLETED)
GatherReady_FirstCompleted(ts, ev) ==
    \E i \in 1 .. Len(ts) : ts[i].ev = ev.id /\ ts[i].st \in {"done", "failed"}

\* mutant: gather without return_exceptions; the first exception ends the wait
GatherReady_Propagate(ts, ev) ==
    \/ \E i \in 1 .. Len(ts) : ts[i].ev = ev.id /\ ts[i].st = "failed"
    \/ \A i \in 1 .. Len(ts) : ts[i].ev = ev.id => ts[i].st \in {"done", "failed"}

\* asyncio.gather(*tasks, return_exceptions=True) returns once every task of
\* the current event has completed or failed
GatherReady(ts, ev) ==
    \A i \in 1 .. Len(ts) : ts[i].ev = ev.id => Finished(ts[i])

\* one task per handler listed for the event's key, in list order
CreateTasks(ev, hs) ==
    [i \in 1 .. Len(hs) |-> [ev |-> ev.id, h |-> hs[i], st |-> "created"]]

\* _dispatch_loop: the test of the while loop
LoopTop ==
    /\ dispatch_pc = "top"
    /\ dispatch_pc' = IF ev_running THEN "wait" ELSE "done"
    /\ UNCHANGED <<handlers, ev_running, event_queue, cur_event, tasks,
                   nextEvent, nextReg, dispatched, expected, invoked, evKey,
                   onceReg, onceCalls, calls, raised>>
    /\ UNCHANGED <<sessVars, queueVars, wsVars>>
    /\ UNCHANGED <<inVars, stopVars>>
    /\ UNCHANGED <<paceVars, ghostVars, srvVars>>

\* _dispatch_loop: wait_for(queue.get()) times out on an empty queue
LoopTimeout ==
    /\ dispatch_pc = "wait"
    /\ event_queue = <<>>
    /\ dispatch_pc' = "top"
    /\ UNCHANGED <<handlers, ev_running, event_queue, cur_event, tasks,
                   nextEvent, nextReg, dispatched, expected, invoked, evKey,
                   onceReg, onceCalls, calls, raised>>
    /\ UNCHANGED <<sessVars, queueVars, wsVars>>
    /\ UNCHANGED <<inVars, stopVars>>
    /\ UNCHANGED <<paceVars, ghostVars, srvVars>>

\* _dispatch_loop: an item is dequeued; the sentinel ends the loop, an event
\* gets one task per handler of its key and the loop waits in gather
LoopGet ==
    /\ dispatch_pc = "wait"
    /\ event_queue /= <<>>
    /\ LET ev == QueueGet(event_queue)
           hs == HandlersFor(ev.key)
       IN
        /\ event_queue' = Tail(event_queue)
        /\ IF ev = Sentinel
             THEN /\ dispatch_pc' = "done"
                  /\ UNCHANGED <<cur_event, tasks, dispatched, expected, invoked>>
             ELSE /\ dispatched' = Append(dispatched, ev.id)
                  /\ expected' = [e \in DOMAIN expected \cup {ev.id} |->
                                    IF e = ev.id THEN Len(hs) ELSE expected[e]]
                  /\ invoked' = [e \in DOMAIN invoked \cup {ev.id} |->
                                   IF e = ev.id THEN 0 ELSE invoked[e]]
                  /\ cur_event' = ev
                  /\ tasks' = tasks \o CreateTasks(ev, hs)
                  /\ dispatch_pc' = IF hs = <<>> THEN "top" ELSE "gather"
    /\ UNCHANGED <<handlers, ev_running, nextEvent, nextReg, evKey, onceReg,
                   onceCalls, calls, raised>>
    /\ UNCHANGED <<sessVars, queueVars, wsVars>>
    /\ UNCHANGED <<inVars, stopVars>>
    /\ UNCHANGED <<paceVars, ghostVars, srvVars>>

\* a handler task runs up to its first suspension or to its end; a wrapper
\* made by once() first calls its own unregister closure
HandlerStart(i, outcome) ==
    /\ i \in 1 .. Len(tasks)
    /\ tasks[i].st = "created"
    /\ LET t == tasks[i] IN
        /\ handlers' = IF t.h.once
                         THEN UnregisterHandler(handlers, evKey[t.ev], t.h)
                         ELSE handlers
        /\ invoked' = [invoked EXCEPT ![t.ev] = @ + 1]
        /\ onceCalls' = IF t.h.once
                          THEN [onceCalls EXCEPT ![t.h.fn] = Append(@, t.ev)]
                          ELSE onceCalls
    /\ tasks' = [tasks EXCEPT ![i].st = outcome]
    /\ raised' = IF outcome = "failed" THEN raised \cup {tasks[i].ev} ELSE raised
    /\ UNCHANGED <<ev_running, event_queue, dispatch_pc, cur_event, nextEvent,
                   nextReg, dispatched, expected, evKey, onceReg, calls>>
    /\ UNCHANGED <<sessVars, queueVars, wsVars>>
    /\ UNCHANGED <<inVars, stopVars>>
    /\ UNCHANGED <<paceVars, ghostVars, srvVars>>

\* a suspended handler task resumes and returns or raises
HandlerResume(i, outcome) ==
    /\ i \in 1 .. Len(tasks)
    /\ tasks[i].st = "suspended"
    /\ tasks' = [tasks EXCEPT ![i].st = outcome]
    /\ raised' = IF outcome = "failed" THEN raised \cup {tasks[i].ev} ELSE raised
    /\ UNCHANGED <<handlers, ev_running, event_queue, dispatch_pc, cur_event,
                   nextEvent, nextReg, dispatched, expected, invoked, evKey,
                   onceReg, onceCalls, calls>>
    /\ UNCHANGED <<sessVars, queueVars, wsVars>>
    /\ UNCHANGED <<inVars, stopVars>>
    /\ UNCHANGED <<paceVars, ghostVars, srvVars>>

\* _dispatch_loop: gather returns, the results are logged, next iteration
GatherDone ==
    /\ dispatch_pc = "gather"
    /\ GatherReady(tasks, cur_event)
    /\ tasks' = SelectSeq(tasks, LAMBDA t : ~Finished(t))
    /\ dispatch_pc' = "top"
    /\ UNCHANGED <<handlers, ev_running, event_queue, cur_event, nextEvent,
                   nextReg, dispatched, expected, invoked, evKey, onceReg,
                   onceCalls, calls, raised>>
    /\ UNCHANGED <<sessVars, queueVars, wsVars>>
    /\ UNCHANGED <<inVars, stopVars>>
    /\ UNCHANGED <<paceVars, ghostVars, srvVars>>

EvNext ==
    \/ EvStart
    \/ EvStop
    \/ \E x \in TopicArgs, f \in Callables : On(x, f)
    \/ \E x \in TopicArgs : Once(x)
    \/ \E k \in EventKeys : \E i \in 1 .. Len(handlers[k]) :
          Unregister(k, handlers[k][i])
    \/ \E x \in TopicArgs : Emit(x)
    \/ LoopTop
    \/ LoopTimeout
    \/ LoopGet
    \/ \E i \in 1 .. Len(tasks) :
          \E o \in {"suspended", "done", "failed"} : HandlerStart(i, o)
    \/ \E i \in 1 .. Len(tasks) :
          \E o \in {"done", "failed"} : HandlerResume(i, o)
    \/ GatherDone

(***************************************************************************)
(* SubscriptionManager and AppSession: subscriptions                       *)
(***************************************************************************)

\* the topics the application subscribes to (Subscription members)
SubTopics == {"audio_chunk", "transcription:en-US"}

NoCall == [op |-> "none", topic |-> "", before |-> {}, after |-> {},
           conn |-> FALSE, msgs |-> <<>>]

SessInit ==
    /\ subscriptions = {}
    /\ connected = FALSE
    /\ authenticated = FALSE
    /\ lastCall = NoCall

\* mutant: add() reports a change for a topic that is already present
SubAdd_AlwaysTrue(S, t) == [set |-> S \cup {t}, changed |-> TRUE]

\* SubscriptionManager.add: the new set, and True if newly added
SubAdd(S, t) == [set |-> S \cup {t}, changed |-> t \notin S]

\* SubscriptionManager.remove: the new set, and True if removed
SubRemove(S, t) == [set |-> S \ {t}, changed |-> t \in S]

\* WebSocketClient.send: the message goes to the tail of _send_queue
\* mutant: put() adds the message at the head of the queue
ClientSend_Prepend(q, m) == <<m>> \o q

ClientSend(q, m) == Append(q, m)

\* AppSession.send: nothing is queued unless _connected
SessionSend(q, conn, m) == IF ~conn THEN q ELSE ClientSend(q, m)

\* ConnectionInitMessage(...).to_dict()
InitMessage(id) == [id |-> id, type |-> "tpa_connection_init", subs |-> {}]

\* SubscriptionUpdateMessage(subscriptions=get_all(), ...).to_dict(): the list
\* holds every member of the set once, in no particular order
SubscriptionUpdateMessage(id, S) ==
    [id |-> id, type |-> "subscription_update", subs |-> S]

\* mutant: the update is sent whether or not the session is connected
UpdateSubscriptions_NoGuard(q, conn, S, id) ==
    ClientSend(q, SubscriptionUpdateMessage(id, S))

\* AppSession._update_subscriptions: the queue after the call
UpdateSubscriptions(q, conn, S, id) ==
    IF ~conn THEN q
    ELSE SessionSend(q, conn, SubscriptionUpdateMessage(id, S))

\* the messages a call appended to the queue
Appended(q, q2) == SubSeq(q2, Len(q) + 1, Len(q2))

\* AppSession.subscribe / AppSession.unsubscribe (op is "subscribe" or
\* "unsubscribe"): the set is changed and, if it changed, the update is sent
SubscriptionCall(op, t) ==
    /\ nextMsg < MaxMsgs
    /\ LET r == IF op = "subscribe" THEN SubAdd(subscriptions, t)
                                    ELSE SubRemove(subscriptions, t)
           q2 == IF r.changed
                   THEN UpdateSubscriptions(send_queue, connected, r.set,
                                            nextMsg + 1)
                   ELSE send_queue
       IN
        /\ subscriptions' = r.set
        /\ send_queue' = q2
        /\ nextMsg' = nextMsg + Len(Appended(send_queue, q2))
        /\ lastCall' = [op |-> op, topic |-> t, before |-> subscriptions,
                        after |-> r.set, conn |-> connected,
                        msgs |-> Appended(send_queue, q2)]
    /\ UNCHANGED <<connected, authenticated>>
    /\ UNCHANGED <<evVars, wsVars>>
    /\ UNCHANGED <<inVars, stopVars>>
    /\ UNCHANGED <<paceVars, ghostVars, srvVars>>

Subscribe(t) == SubscriptionCall("subscribe", t)

Unsubscribe(t) == SubscriptionCall("unsubscribe", t)

\* AppSession._on_connect, called by the client once a link is established
SessOnConnect ==
    /\ nextMsg < MaxMsgs
    /\ connected' = TRUE
    /\ send_queue' = SessionSend(send_queue, TRUE, InitMessage(nextMsg + 1))
    /\ nextMsg' = nextMsg + 1
    /\ UNCHANGED <<subscriptions, authenticated, lastCall>>
    /\ UNCHANGED <<evVars, wsVars>>
    /\ UNCHANGED <<inVars, stopVars>>
    /\ UNCHANGED <<paceVars, ghostVars, srvVars>>

\* AppSession._on_disconnect, called by WebSocketClient.disconnect
SessOnDisconnect ==
    /\ connected' = FALSE
    /\ authenticated' = FALSE
    /\ UNCHANGED <<subscriptions, lastCall>>
    /\ UNCHANGED queueVars
    /\ UNCHANGED <<evVars, wsVars>>
    /\ UNCHANGED <<inVars, stopVars>>
    /\ UNCHANGED <<paceVars, ghostVars, srvVars>>

\* the transport takes the oldest message off the queue
QueueTake ==
    /\ send_queue /= <<>>
    /\ send_queue' = Tail(send_queue)
    /\ UNCHANGED nextMsg
    /\ UNCHANGED sessVars
    /\ UNCHANGED <<evVars, wsVars>>
    /\ UNCHANGED <<inVars, stopVars>>
    /\ UNCHANGED <<paceVars, ghostVars, srvVars>>

SessNext ==
    \/ \E t \in SubTopics : Subscribe(t)
    \/ \E t \in SubTopics : Unsubscribe(t)
    \/ SessOnConnect
    \/ SessOnDisconnect
    \/ QueueTake

QueueInit ==
    /\ send_queue = <<>>
    /\ nextMsg = 0

(***************************************************************************)
(* WebSocketClient                                                         *)
(***************************************************************************)

\* intervals are counted in 1/Scale seconds, which keeps 5 * 1.5^k exact
Scale == 2 ^ 7
\* reconnect_interval: float = 5.0
ReconnectIntervalSec == 5
\* max_reconnect_interval: float = 60.0
MaxReconnectIntervalSec == 60
\* reconnect_decay: float = 1.5, as a fraction
DecayNum == 3
DecayDen == 2

reconnect_interval == ReconnectIntervalSec * Scale
max_reconnect_interval == MaxReconnectIntervalSec * Scale

Min(a, b) == IF a <= b THEN a ELSE b

\* mutant: the interval grows without the ceiling
NextInterval_NoCap(x) == (x * DecayNum) \div DecayDen

\* min(interval * reconnect_decay, max_reconnect_interval)
NextInterval(x) == Min((x * DecayNum) \div DecayDen, max_reconnect_interval)

\* connect(): self._current_reconnect_interval = self.reconnect_interval
IntervalAfterConnect == reconnect_interval

\* is_connected: _websocket is not None and not _websocket.closed
IsConnected == websocket /= 0 /\ links[websocket] /= "closed"

AppCallers == {1}
Free == <<>>
AppId(a) == <<"app", a>>
RecId(r) == <<"rec", r>>


\* no send loop has taken a message yet
NoAttempt == [outcome |-> "none", conn |-> FALSE, link |-> "none", tail |-> FALSE,
              slept |-> FALSE, late |-> FALSE, requeued |-> FALSE]

WsInit ==
    /\ links = <<>>
    /\ rl = <<>>
    /\ websocket = 0
    /\ ws_running = FALSE
    /\ receive_task = 0
    /\ rtasks = <<>>
    /\ reconnect_task = 0
    /\ appc = [a \in AppCallers |-> "idle"]
    /\ lock = Free
    /\ cur_interval = reconnect_interval
    /\ sendLoops = [get |-> 0, sleep |-> 0]
    /\ disc = [pc |-> "idle", link |-> 0]
    /\ maxSent = 0
    /\ lastAttempt = NoAttempt
    /\ fails = 0
    /\ openedAfter = FALSE
    /\ requeued = {}

\* links that are physically open (the closing handshake included)
OpenLinks == { l \in 1 .. Len(links) : links[l] /= "closed" }

\* an application message passed to AppSession.send
AppMessage(id) == [id |-> id, type |-> "display_event", subs |-> {}]

\* connect(), from the lock on: a caller that finds the lock taken waits; one
\* that gets it returns at once if is_connected and otherwise starts opening
\* a link (await websockets.connect) with the lock held.
ConnectPc ==
    IF lock /= Free THEN "waitlock"
    ELSE IF IsConnected THEN "return" ELSE "opening"

ConnectEnter(c) ==
    lock' = IF ConnectPc = "opening" THEN c ELSE lock

\* an application task calls connect(), or gets the lock it waited for
AppConnect(a) ==
    /\ appc[a] \in {"idle", "waitlock"}
    /\ appc[a] = "waitlock" => lock = Free
    /\ ConnectEnter(AppId(a))
    /\ appc' = [appc EXCEPT ![a] = IF ConnectPc = "return" THEN "idle"
                                                            ELSE ConnectPc]
    /\ UNCHANGED <<links, rl, websocket, ws_running, receive_task, rtasks,
                   reconnect_task, cur_interval, sendLoops, disc, maxSent, lastAttempt, fails,
                   openedAfter, requeued>>
    /\ UNCHANGED <<evVars, sessVars, queueVars>>
    /\ UNCHANGED <<inVars, stopVars>>
    /\ UNCHANGED <<paceVars, ghostVars, srvVars>>

\* mutant: _reconnect gives up after its first failed attempt
ReconnectLoop_GiveUp(r, rts, running, isconn, interval, k, first) ==
    IF running /\ ~isconn /\ first
      THEN [rts EXCEPT ![r].pc = "sleep", ![r].delay = interval, ![r].k = k,
                       ![r].first = first]
      ELSE [rts EXCEPT ![r].pc = "done", ![r].delay = 0, ![r].k = 0,
                       ![r].first = FALSE]

\* _reconnect: the test of the while loop, then the sleep
ReconnectLoop(r, rts, running, isconn, interval, k, first) ==
    IF running /\ ~isconn
      THEN [rts EXCEPT ![r].pc = "sleep", ![r].delay = interval, ![r].k = k,
                       ![r].first = first]
      ELSE [rts EXCEPT ![r].pc = "done", ![r].delay = 0, ![r].k = 0,
                       ![r].first = FALSE]

\* a new _reconnect task starts running
ReconnectStart(r) ==
    /\ r \in 1 .. Len(rtasks)
    /\ rtasks[r].pc = "start"
    /\ rtasks' = ReconnectLoop(r, rtasks, ws_running, IsConnected,
                               cur_interval, fails, TRUE)
    /\ UNCHANGED <<links, rl, websocket, ws_running, receive_task,
                   reconnect_task, appc, lock, cur_interval, sendLoops, disc,
                   maxSent, lastAttempt, fails, openedAfter, requeued>>
    /\ UNCHANGED <<evVars, sessVars, queueVars>>
    /\ UNCHANGED <<inVars, stopVars>>
    /\ UNCHANGED <<paceVars, ghostVars, srvVars>>

\* _reconnect: the sleep is over and connect() is called (or the lock the
\* task waited for is free); a connect() that returns ends the task
ReconnectConnect(r) ==
    /\ r \in 1 .. Len(rtasks)
    /\ rtasks[r].pc \in {"sleep", "waitlock"}
    /\ rtasks[r].pc = "waitlock" => lock = Free
    /\ ConnectEnter(RecId(r))
    /\ rtasks' = [rtasks EXCEPT ![r].pc = IF ConnectPc = "return" THEN "done"
                                                                   ELSE ConnectPc,
                                ![r].delay = 0, ![r].k = 0,
                                ![r].first = FALSE]
    /\ UNCHANGED <<links, rl, websocket, ws_running, receive_task,
                   reconnect_task, appc, cur_interval, sendLoops, disc, maxSent, lastAttempt,
                   fails, openedAfter, requeued>>
    /\ UNCHANGED <<evVars, sessVars, queueVars>>
    /\ UNCHANGED <<inVars, stopVars>>
    /\ UNCHANGED <<paceVars, ghostVars, srvVars>>

\* the caller that holds the lock and is opening a link
Opening(c) ==
    /\ lock = c
    /\ \/ \E a \in AppCallers : c = AppId(a) /\ appc[a] = "opening"
       \/ \E r \in 1 .. Len(rtasks) : c = RecId(r) /\ rtasks[r].pc = "opening"

\* connect(): websockets.connect returned a link.  _running is set, the
\* interval is reset, the receive loop and a send loop are started and
\* on_connect (AppSession._on_connect) runs, all under the lock.
ConnectSucceed(c, maxLinks) ==
    /\ Opening(c)
    /\ Len(links) < maxLinks
    /\ nextMsg < MaxMsgs
    /\ links' = Append(links, "open")
    /\ rl' = Append(rl, "run")
    /\ websocket' = Len(links) + 1
    /\ ws_running' = TRUE
    /\ cur_interval' = IntervalAfterConnect
    /\ receive_task' = Len(links) + 1
    /\ sendLoops' = [sendLoops EXCEPT !.get = @ + 1]
    /\ connected' = TRUE
    /\ send_queue' = SessionSend(send_queue, TRUE, InitMessage(nextMsg + 1))
    /\ nextMsg' = nextMsg + 1
    /\ lock' = Free
    /\ appc' = [a \in AppCallers |->
                  IF c = AppId(a) THEN "idle" ELSE appc[a]]
    /\ rtasks' = [r \in 1 .. Len(rtasks) |->
                    IF c = RecId(r) THEN [rtasks[r] EXCEPT !.pc = "done"]
                                    ELSE rtasks[r]]
    /\ fails' = 0
    /\ openedAfter' = (fails > 0)
    /\ UNCHANGED <<reconnect_task, disc, maxSent, lastAttempt, requeued>>
    /\ inq' = Append(inq, <<>>)
    /\ cb' = 0
    /\ UNCHANGED <<subscriptions, authenticated, lastCall>>
    /\ UNCHANGED evVars
    /\ UNCHANGED <<nextFrame, delivered, dropped, badIds, lastFrame>>
    /\ UNCHANGED <<stopc, lastSend, lastStop>>
    /\ UNCHANGED <<paceVars, ghostVars, srvVars>>

\* connect() of an application task: websockets.connect raised, the lock is
\* released and ConnectionError goes to the caller
AppConnectFail(a) ==
    /\ Opening(AppId(a))
    /\ lock' = Free
    /\ appc' = [appc EXCEPT ![a] = "idle"]
    /\ UNCHANGED <<links, rl, websocket, ws_running, receive_task, rtasks,
                   reconnect_task, cur_interval, sendLoops, disc, maxSent, lastAttempt, fails,
                   openedAfter, requeued>>
    /\ UNCHANGED <<evVars, sessVars, queueVars>>
    /\ UNCHANGED <<inVars, stopVars>>
    /\ UNCHANGED <<paceVars, ghostVars, srvVars>>

\* _reconnect: connect() raised; the interval grows and the loop goes on
ReconnectFail(r, maxFails) ==
    /\ Opening(RecId(r))
    /\ fails < maxFails
    /\ lock' = Free
    /\ cur_interval' = NextInterval(cur_interval)
    /\ fails' = fails + 1
    /\ rtasks' = ReconnectLoop(r, rtasks, ws_running, IsConnected,
                               NextInterval(cur_interval), fails + 1, FALSE)
    /\ UNCHANGED <<links, rl, websocket, ws_running, receive_task,
                   reconnect_task, appc, sendLoops, disc, maxSent, lastAttempt, openedAfter,
                   requeued>>
    /\ UNCHANGED <<evVars, sessVars, queueVars>>
    /\ UNCHANGED <<inVars, stopVars>>
    /\ UNCHANGED <<paceVars, ghostVars, srvVars>>

\* the peer or the network closes a link
LinkDrop(l) ==
    /\ l \in 1 .. Len(links)
    /\ links[l] /= "closed"
    /\ links' = [links EXCEPT ![l] = "closed"]
    /\ UNCHANGED <<rl, websocket, ws_running, receive_task, rtasks,
                   reconnect_task, appc, lock, cur_interval, sendLoops, disc,
                   maxSent, lastAttempt, fails, openedAfter, requeued>>
    /\ UNCHANGED <<evVars, sessVars, queueVars>>
    /\ UNCHANGED <<inVars, stopVars>>
    /\ UNCHANGED <<paceVars, ghostVars, srvVars>>

\* _receive_loop ends (its link is closed, or the task was cancelled); the
\* finally clause starts a _reconnect task if _running
ReceiveEnd(l) ==
    /\ l \in 1 .. Len(rl)
    /\ \/ rl[l] = "cancel"
       \/ rl[l] = "run" /\ links[l] = "closed"
    /\ rl' = [rl EXCEPT ![l] = "ended"]
    /\ IF ws_running
         THEN /\ rtasks' = Append(rtasks, [pc |-> "start", delay |-> 0,
                                           k |-> 0, first |-> FALSE,
                                           link |-> l])
              /\ reconnect_task' = Len(rtasks) + 1
         ELSE UNCHANGED <<rtasks, reconnect_task>>
    /\ UNCHANGED <<links, websocket, ws_running, receive_task, appc, lock,
                   cur_interval, sendLoops, disc, maxSent, lastAttempt, fails, openedAfter,
                   requeued>>
    /\ UNCHANGED <<evVars, sessVars, queueVars>>
    /\ UNCHANGED <<inVars, stopVars>>
    /\ UNCHANGED <<paceVars, ghostVars, srvVars>>

\* what on_disconnect (AppSession._on_disconnect) does
OnDisconnect ==
    /\ connected' = FALSE
    /\ authenticated' = FALSE

\* the on_disconnect callbacks counted since the last connect (0, 1, many)
Fired(n) == IF n < 2 THEN n + 1 ELSE 2

\* disconnect(), up to the await of websocket.close(): _running is cleared,
\* the reconnect task and the receive task are cancelled and the closing
\* handshake starts.  With no websocket, or with one that is already closed
\* and a close() that returns without suspending, the call runs to its end.
\* The callbacks are counted when count is set.
DisconnectBody(count) ==
    /\ ws_running' = FALSE
    /\ rtasks' = [r \in 1 .. Len(rtasks) |->
                    IF r = reconnect_task /\ rtasks[r].pc /= "done"
                      THEN [rtasks[r] EXCEPT !.pc = "done", !.delay = 0,
                                             !.k = 0, !.first = FALSE]
                      ELSE rtasks[r]]
    /\ lock' = IF reconnect_task /= 0 /\ lock = RecId(reconnect_task)
                 THEN Free ELSE lock
    /\ rl' = [l \in 1 .. Len(rl) |->
                IF l = receive_task /\ rl[l] = "run" THEN "cancel" ELSE rl[l]]
    /\ IF websocket = 0
         THEN /\ OnDisconnect
              /\ cb' = IF count THEN Fired(cb) ELSE cb
              /\ UNCHANGED <<links, websocket, disc>>
         ELSE /\ links' = [links EXCEPT ![websocket] =
                             IF @ = "open" THEN "closing" ELSE @]
              /\ \/ /\ disc' = [pc |-> "closing", link |-> websocket]
                    /\ UNCHANGED <<websocket, connected, authenticated, cb>>
                 \/ /\ links[websocket] = "closed"
                    /\ websocket' = 0
                    /\ OnDisconnect
                    /\ cb' = IF count THEN Fired(cb) ELSE cb
                    /\ UNCHANGED disc
    /\ UNCHANGED <<receive_task, reconnect_task, appc, cur_interval,
                   sendLoops, maxSent, lastAttempt, fails, openedAfter, requeued>>

\* disconnect(), after close() returned: _websocket = None, on_disconnect
DisconnectEnd(count) ==
    /\ disc.pc = "closing"
    /\ links[disc.link] = "closed"
    /\ websocket' = 0
    /\ OnDisconnect
    /\ cb' = IF count THEN Fired(cb) ELSE cb
    /\ disc' = [pc |-> "idle", link |-> 0]
    /\ UNCHANGED <<links, rl, ws_running, receive_task, rtasks,
                   reconnect_task, appc, lock, cur_interval, sendLoops, maxSent, lastAttempt,
                   fails, openedAfter, requeued>>

\* the application calls disconnect()
DisconnectCall ==
    /\ disc.pc = "idle"
    /\ DisconnectBody(FALSE)
    /\ UNCHANGED <<subscriptions, lastCall>>
    /\ UNCHANGED <<evVars, queueVars>>
    /\ UNCHANGED <<inVars, stopc, lastSend, lastStop>>
    /\ UNCHANGED <<paceVars, ghostVars, srvVars>>

\* disconnect() of the application resumes after close()
DisconnectFinish ==
    /\ DisconnectEnd(FALSE)
    /\ UNCHANGED <<subscriptions, lastCall>>
    /\ UNCHANGED <<evVars, queueVars>>
    /\ UNCHANGED <<inVars, stopc, lastSend, lastStop>>
    /\ UNCHANGED <<paceVars, ghostVars, srvVars>>

\* the same calls with the on_disconnect callbacks counted
CountedDisconnectCall ==
    /\ disc.pc = "idle"
    /\ DisconnectBody(TRUE)
    /\ UNCHANGED <<subscriptions, lastCall>>
    /\ UNCHANGED <<evVars, queueVars>>
    /\ UNCHANGED <<inVars, stopc, lastSend, lastStop>>
    /\ UNCHANGED <<paceVars, ghostVars, srvVars>>

CountedDisconnectFinish ==
    /\ DisconnectEnd(TRUE)
    /\ UNCHANGED <<subscriptions, lastCall>>
    /\ UNCHANGED <<evVars, queueVars>>
    /\ UNCHANGED <<inVars, stopc, lastSend, lastStop>>
    /\ UNCHANGED <<paceVars, ghostVars, srvVars>>

\* AppSession.is_connected
SessionIsConnected == connected /\ IsConnected

\* the application sends a message through AppSession.send
AppSend ==
    /\ nextMsg < MaxMsgs
    /\ send_queue' = SessionSend(send_queue, connected, AppMessage(nextMsg + 1))
    /\ nextMsg' = IF send_queue' /= send_queue THEN nextMsg + 1 ELSE nextMsg
    /\ lastSend' = [called |-> TRUE, flag |-> connected,
                    isconn |-> SessionIsConnected,
                    enqueued |-> send_queue' /= send_queue]
    /\ UNCHANGED <<evVars, sessVars, wsVars>>
    /\ UNCHANGED <<inVars, stopc, cb, lastStop>>
    /\ UNCHANGED <<paceVars, ghostVars, srvVars>>

\* _send_loop: what happens to the message taken from the queue
\* mutant: the loop sends without the is_connected test
SendOutcome_NoGate(isconn, link) == "sent"

SendOutcome(isconn, link) ==
    IF ~isconn THEN "requeued"
    ELSE IF link = "open" THEN "sent" ELSE "raised"

\* the state of the link _websocket refers to
CurrentLink == IF websocket = 0 THEN "none" ELSE links[websocket]

\* _send_loop, after an iteration: the test of the while loop
SendLoopAgain(sl, running) ==
    IF running THEN sl ELSE [sl EXCEPT !.get = @ - 1]

\* _send_loop: one iteration that gets a message
SendLoopBody ==
    /\ sendLoops.get > 0
    /\ send_queue /= <<>>
    /\ LET m == QueueGet(send_queue)
           rest == Tail(send_queue)
           out == SendOutcome(IsConnected, CurrentLink)
       IN /\ send_queue' = IF out = "requeued" THEN ClientSend(rest, m)
                                               ELSE rest
          /\ maxSent' = IF out = "sent" /\ m.id > maxSent THEN m.id ELSE maxSent
          /\ requeued' = IF out = "requeued" THEN requeued \cup {m.id}
                                             ELSE requeued \ {m.id}
          /\ sendLoops' = IF out = "requeued"
                            THEN [get |-> sendLoops.get - 1,
                                  sleep |-> sendLoops.sleep + 1]
                            ELSE SendLoopAgain(sendLoops, ws_running)
          /\ lastAttempt' =
                [outcome |-> out, conn |-> IsConnected, link |-> CurrentLink,
                 tail |-> /\ send_queue' /= <<>>
                          /\ send_queue'[Len(send_queue')] = m,
                 slept |-> sendLoops'.sleep = sendLoops.sleep + 1,
                 late |-> out = "sent" /\ m.id < maxSent,
                 requeued |-> out = "sent" /\ m.id \in requeued]
    /\ UNCHANGED <<links, rl, websocket, ws_running, receive_task, rtasks,
                   reconnect_task, appc, lock, cur_interval, disc, fails,
                   openedAfter>>
    /\ UNCHANGED <<nextMsg, sessVars, evVars>>
    /\ UNCHANGED <<inVars, stopVars>>
    /\ UNCHANGED paceVars

SendLoopIter ==
    /\ SendLoopBody
    /\ UNCHANGED <<ghostVars, srvVars>>

\* the same iteration, with the subscription update it puts on the link
\* recorded
SendLoopTransmit ==
    /\ SendLoopBody
    /\ LET m == QueueGet(send_queue) IN
        wireSubs' = IF /\ SendOutcome(IsConnected, CurrentLink) = "sent"
                       /\ m.type = "subscription_update"
                      THEN [link |-> websocket, subs |-> m.subs]
                      ELSE wireSubs
    /\ UNCHANGED <<routerStop, wireFirst, srvVars>>

\* the same iteration, with the first message it puts on a link recorded
SendLoopFirst ==
    /\ SendLoopBody
    /\ LET m == QueueGet(send_queue) IN
        wireFirst' = IF /\ SendOutcome(IsConnected, CurrentLink) = "sent"
                        /\ wireFirst.link /= websocket
                       THEN [link |-> websocket, type |-> m.type]
                       ELSE wireFirst
    /\ UNCHANGED <<routerStop, wireSubs, srvVars>>

\* the peer starts the closing handshake of a link: until the connection is
\* gone the link is neither open nor closed
PeerClose(l) ==
    /\ l \in 1 .. Len(links)
    /\ links[l] = "open"
    /\ links' = [links EXCEPT ![l] = "closing"]
    /\ UNCHANGED <<rl, websocket, ws_running, receive_task, rtasks,
                   reconnect_task, appc, lock, cur_interval, sendLoops, disc,
                   maxSent, lastAttempt, fails, openedAfter, requeued>>
    /\ UNCHANGED <<evVars, sessVars, queueVars>>
    /\ UNCHANGED <<inVars, stopVars>>
    /\ UNCHANGED <<paceVars, ghostVars, srvVars>>

\* _send_loop: the get timed out on an empty queue and _running is false
SendLoopTimeout ==
    /\ sendLoops.get > 0
    /\ send_queue = <<>>
    /\ ~ws_running
    /\ sendLoops' = [sendLoops EXCEPT !.get = @ - 1]
    /\ UNCHANGED <<links, rl, websocket, ws_running, receive_task, rtasks,
                   reconnect_task, appc, lock, cur_interval, disc, maxSent, lastAttempt,
                   fails, openedAfter, requeued>>
    /\ UNCHANGED <<evVars, sessVars, queueVars>>
    /\ UNCHANGED <<inVars, stopVars>>
    /\ UNCHANGED <<paceVars, ghostVars, srvVars>>

\* _send_loop: the 0.1 s sleep after a requeue is over
SendLoopWake ==
    /\ sendLoops.sleep > 0
    /\ sendLoops' = SendLoopAgain([get |-> sendLoops.get + 1,
                                   sleep |-> sendLoops.sleep - 1], ws_running)
    /\ UNCHANGED <<links, rl, websocket, ws_running, receive_task, rtasks,
                   reconnect_task, appc, lock, cur_interval, disc, maxSent, lastAttempt,
                   fails, openedAfter, requeued>>
    /\ UNCHANGED <<evVars, sessVars, queueVars>>
    /\ UNCHANGED <<inVars, stopVars>>
    /\ UNCHANGED <<paceVars, ghostVars, srvVars>>

(***************************************************************************)
(* AppSession.stop()                                                       *)
(***************************************************************************)
NoStop == [times |-> 0, by |-> 0, cleared |-> FALSE, router |-> "none",
           subs |-> FALSE, connected |-> FALSE, authenticated |-> FALSE,
           dispatch |-> FALSE, send |-> FALSE, receive |-> FALSE,
           reconnect |-> FALSE]

NoSend == [called |-> FALSE, flag |-> FALSE, isconn |-> FALSE, enqueued |-> FALSE]

StopInit ==
    /\ stopc = [pc |-> "idle", by |-> 0, cleared |-> FALSE, router |-> "none"]
    /\ cb = 0
    /\ lastSend = NoSend
    /\ lastStop = NoStop

\* the application task that calls stop()
App == 0

\* mutant: stop() leaves the subscriptions as they are
ClearSubscriptions_Keep(S) == S

\* SubscriptionManager.clear()
ClearSubscriptions(S) == {}

\* mutant: EventManager.stop() never waits for the dispatch task
EventsStopWaits_Never(pc) == FALSE

\* EventManager.stop() queues the sentinel and awaits the dispatch task when
\* that task exists and is not done
EventsStopWaits(pc) == pc \notin {"none", "done"}

\* the state of the router as disconnect() is entered
RouterState(pc, running) ==
    IF pc \in {"none", "done"} /\ ~running THEN "stopped" ELSE "running"

\* what a stop() that returns leaves behind
StopSnapshot(by, cleared, router, subs, conn, auth, pc, sl, rls, rts) ==
    [times |-> Fired(lastStop.times), by |-> by, cleared |-> cleared,
     router |-> router,
     subs |-> subs /= {}, connected |-> conn, authenticated |-> auth,
     dispatch |-> pc \notin {"none", "done"},
     send |-> sl.get + sl.sleep > 0,
     receive |-> \E l \in 1 .. Len(rls) : rls[l] /= "ended",
     reconnect |-> \E r \in 1 .. Len(rts) : rts[r].pc /= "done"]

\* stop(), from the call of disconnect() on: the call either suspends in
\* websocket.close() or runs to the end of stop().  The two flags stop()
\* clears after disconnect() are the ones on_disconnect has just cleared.
StopDisconnect(by, subs, running) ==
    /\ DisconnectBody(TRUE)
    /\ LET cleared == subs = {}
           router == RouterState(dispatch_pc, running)
       IN IF disc'.pc = "closing"
            THEN /\ stopc' = [pc |-> "closing", by |-> by, cleared |-> cleared,
                              router |-> router]
                 /\ UNCHANGED lastStop
            ELSE /\ stopc' = [pc |-> "idle", by |-> 0, cleared |-> FALSE,
                              router |-> "none"]
                 /\ lastStop' = StopSnapshot(by, cleared, router, subs,
                                             connected', authenticated',
                                             dispatch_pc, sendLoops,
                                             rl', rtasks')

\* stop(), up to its first suspension: the subscriptions are cleared,
\* EventManager.stop() clears _running and, while the dispatch task is alive,
\* queues the sentinel and awaits the task; otherwise disconnect() follows
\* at once.  q is the event queue at the call.
StopBegin(by, q) ==
    /\ stopc.pc = "idle"
    /\ disc.pc = "idle"
    /\ subscriptions' = ClearSubscriptions(subscriptions)
    /\ ev_running' = FALSE
    /\ IF EventsStopWaits(dispatch_pc)
         THEN /\ event_queue' = Append(q, Sentinel)
              /\ stopc' = [pc |-> "events", by |-> by, cleared |-> FALSE,
                           router |-> "none"]
              /\ UNCHANGED <<wsVars, connected, authenticated, cb, lastStop>>
         ELSE /\ event_queue' = q
              /\ StopDisconnect(by, subscriptions', FALSE)

\* the application calls stop()
StopCall ==
    /\ StopBegin(App, event_queue)
    /\ UNCHANGED <<handlers, dispatch_pc, cur_event, tasks, nextEvent, nextReg,
                   dispatched, expected, invoked, evKey, onceReg, onceCalls,
                   calls, raised>>
    /\ UNCHANGED <<lastCall, queueVars, inVars, lastSend>>
    /\ UNCHANGED <<paceVars, ghostVars, srvVars>>

\* stop(): the dispatch task is done, EventManager.stop() returns and
\* disconnect() is called
StopAfterEvents ==
    /\ stopc.pc = "events"
    /\ dispatch_pc = "done"
    /\ StopDisconnect(stopc.by, subscriptions, ev_running)
    /\ UNCHANGED <<evVars, subscriptions, lastCall, queueVars, inVars, lastSend>>
    /\ UNCHANGED <<paceVars, ghostVars, srvVars>>

\* stop(): close() returned; disconnect() ends, the flags are cleared and
\* stop() returns
StopFinish ==
    /\ stopc.pc = "closing"
    /\ DisconnectEnd(TRUE)
    /\ stopc' = [pc |-> "idle", by |-> 0, cleared |-> FALSE, router |-> "none"]
    /\ lastStop' = StopSnapshot(stopc.by, stopc.cleared, stopc.router,
                                subscriptions, connected', authenticated',
                                dispatch_pc, sendLoops, rl, rtasks)
    /\ UNCHANGED <<evVars, subscriptions, lastCall, queueVars, inVars, lastSend>>
    /\ UNCHANGED <<paceVars, ghostVars, srvVars>>

\* stop() runs in a receive loop that disconnect() has just cancelled: the
\* CancelledError is raised inside close(), goes through _handle_message and
\* ends the loop; _websocket and the flags stay as they are
StopAbort ==
    /\ stopc.pc = "closing"
    /\ stopc.by /= App
    /\ rl[stopc.by] = "cancel"
    /\ stopc' = [pc |-> "idle", by |-> 0, cleared |-> FALSE, router |-> "none"]
    /\ disc' = [pc |-> "idle", link |-> 0]
    /\ rl' = [rl EXCEPT ![stopc.by] = "ended"]
    /\ IF ws_running
         THEN /\ rtasks' = Append(rtasks, [pc |-> "start", delay |-> 0,
                                           k |-> 0, first |-> FALSE,
                                           link |-> stopc.by])
              /\ reconnect_task' = Len(rtasks) + 1
         ELSE UNCHANGED <<rtasks, reconnect_task>>
    /\ UNCHANGED <<links, websocket, ws_running, receive_task, appc, lock,
                   cur_interval, sendLoops, maxSent, lastAttempt, fails,
                   openedAfter, requeued>>
    /\ UNCHANGED <<evVars, sessVars, queueVars, inVars, cb, lastSend, lastStop>>
    /\ UNCHANGED <<paceVars, ghostVars, srvVars>>

(***************************************************************************)
(* WebSocketClient._receive_loop and AppSession._handle_message            *)
(***************************************************************************)
\* frames the peer sends in one behaviour
MaxFrames == 3
\* physical links opened in one behaviour of SpecStop
MaxLinksStop == 1
\* connection acknowledgments the peer sends in one behaviour of SpecStop
MaxAcks == 1
\* frames the peer sends to a session in one behaviour
MaxSessionFrames == 2

\* the members of EventType and their values
EventType ==
    [AUDIO_CHUNK |-> "audio_chunk", TRANSCRIPTION |-> "transcription",
     TRANSLATION |-> "translation", BATTERY_UPDATE |-> "glasses_battery_update",
     CONNECTION_STATE |-> "connection_state", SESSION_STATE |-> "session_state",
     APP_STOPPED |-> "app_stopped", ERROR |-> "error", CUSTOM |-> "custom",
     AUDIO_PLAY_RESPONSE |-> "audio_play_response"]

EventTypeValues == { EventType[n] : n \in DOMAIN EventType }

\* MessageType.TPA_CONNECTION_ACK
TPA_CONNECTION_ACK == "tpa_connection_ack"

\* a frame: its encoding, whether its text is valid JSON, and the fields of
\* the JSON object that the handlers read
BinaryFrame == [enc |-> "bytes", json |-> FALSE, type |-> "", streamType |-> "",
                error |-> FALSE]
MalformedFrame == [enc |-> "text", json |-> FALSE, type |-> "", streamType |-> "",
                   error |-> FALSE]
TextFrame(type, streamType, error) ==
    [enc |-> "text", json |-> TRUE, type |-> type, streamType |-> streamType,
     error |-> error]

\* the frames a peer sends to the transport
TransportFrames ==
    {BinaryFrame, MalformedFrame, TextFrame("glasses_battery_update", "", FALSE)}

\* the frames a peer sends to a session
SessionFrames ==
    {BinaryFrame,
     TextFrame("data_stream", "transcription", FALSE),
     TextFrame("data_stream", "translation", FALSE),
     TextFrame(TPA_CONNECTION_ACK, "", FALSE),
     TextFrame(TPA_CONNECTION_ACK, "", TRUE),
     TextFrame("glasses_battery_update", "", FALSE),
     TextFrame("display_event", "", FALSE)}

AppStoppedFrame == TextFrame("app_stopped", "", FALSE)

NoFrame == [id |-> 0, link |-> 0, f |-> MalformedFrame, fault |-> FALSE,
            called |-> FALSE, events |-> <<>>, auth |-> FALSE, was |-> FALSE,
            now |-> FALSE, error |-> "none", surfaced |-> FALSE, stop |-> FALSE,
            connected |-> FALSE, loop |-> "none", reconnect |-> FALSE]

InInit ==
    /\ inq = <<>>
    /\ nextFrame = 0
    /\ delivered = <<>>
    /\ dropped = {}
    /\ badIds = {}
    /\ lastFrame = NoFrame

\* _receive_loop: what on_message is called with.  Bytes are wrapped as
\* {"type": "binary"}; text goes through json.loads, which raises
\* JSONDecodeError on text that is not JSON.
Decode(f) ==
    IF f.enc = "bytes" THEN [ok |-> TRUE, type |-> "binary", streamType |-> "",
                             error |-> FALSE]
    ELSE IF f.json THEN [ok |-> TRUE, type |-> f.type,
                         streamType |-> f.streamType, error |-> f.error]
    ELSE [ok |-> FALSE, type |-> "", streamType |-> "", error |-> FALSE]

\* EventManager.emit_from_message: the events created for a message type.
\* EventType(type) raises ValueError for a type that is no member's value;
\* the error is logged and nothing is emitted.
EmitFromMessage(type) ==
    IF type \in EventTypeValues THEN <<type>> ELSE <<>>

\* mutant: the acknowledgment authenticates whatever it carries
HandleConnectionAck_NoCheck(data) == [auth |-> TRUE, error |-> "none"]

\* AppSession._handle_connection_ack: an error field raises
\* AuthenticationError before _authenticated is set
HandleConnectionAck(data) ==
    IF data.error THEN [auth |-> FALSE, error |-> "AuthenticationError"]
                  ELSE [auth |-> TRUE, error |-> "none"]

\* AppSession._handle_message: the events emitted, whether _authenticated is
\* set, the error logged, whether that error leaves _handle_message, and
\* whether stop() is called.  The whole body is inside try/except Exception,
\* so no error leaves it.
HandleMessage(data) ==
    IF data.type = "binary"
      THEN [events |-> EmitFromMessage(EventType.AUDIO_CHUNK), auth |-> FALSE,
            error |-> "none", surfaced |-> FALSE, stop |-> FALSE]
    ELSE IF data.type = "data_stream"
      THEN [events |-> IF data.streamType = "transcription"
                         THEN EmitFromMessage("transcription") ELSE <<>>,
            auth |-> FALSE, error |-> "none", surfaced |-> FALSE, stop |-> FALSE]
    ELSE IF data.type = TPA_CONNECTION_ACK
      THEN [events |-> <<>>, auth |-> HandleConnectionAck(data).auth,
            error |-> HandleConnectionAck(data).error, surfaced |-> FALSE,
            stop |-> FALSE]
    ELSE IF data.type = "app_stopped"
      THEN [events |-> EmitFromMessage(data.type), auth |-> FALSE,
            error |-> "none", surfaced |-> FALSE, stop |-> TRUE]
    ELSE [events |-> EmitFromMessage(data.type), auth |-> FALSE,
          error |-> IF data.type \in EventTypeValues THEN "none" ELSE "ValueError",
          surfaced |-> FALSE, stop |-> FALSE]

\* when on_message is not called or raises
NoHandling == [events |-> <<>>, auth |-> FALSE, error |-> "none",
               surfaced |-> FALSE, stop |-> FALSE]

\* str(event.type) of an event made from a message of that type
MessageEventKey(type) ==
    "EventType." \o (CHOOSE n \in DOMAIN EventType : EventType[n] = type)

\* the events of one message, as they are put on the event queue
QueuedEvents(types, first) ==
    [i \in 1 .. Len(types) |->
        [id |-> first + i, key |-> MessageEventKey(types[i])]]

\* mutant: an error in the handling of a frame ends the receive loop
LoopAfterFrame_Propagate(ok, fault) == IF ok /\ ~fault THEN "run" ELSE "ended"

\* _receive_loop after a frame: JSONDecodeError and any Exception raised by
\* on_message are caught inside the loop body and logged
LoopAfterFrame(ok, fault) == "run"

\* the peer sends a frame on a link
Arrive(l, f, maxFrames) ==
    /\ l \in 1 .. Len(links)
    /\ links[l] = "open"
    /\ nextFrame < maxFrames
    /\ nextFrame' = nextFrame + 1
    /\ inq' = [inq EXCEPT ![l] = Append(@, [id |-> nextFrame + 1, f |-> f])]
    /\ badIds' = IF f.enc = "text" /\ ~f.json THEN badIds \cup {nextFrame + 1}
                                               ELSE badIds
    /\ UNCHANGED <<delivered, dropped, lastFrame>>
    /\ UNCHANGED <<evVars, sessVars, queueVars, wsVars, stopVars>>
    /\ UNCHANGED <<paceVars, ghostVars, srvVars>>

\* the history of one frame taken by the loop of link l
FrameRecord(l, item, fault, data, h, after, reconnect, auth, conn) ==
    [id |-> item.id, link |-> l, f |-> item.f, fault |-> fault,
     called |-> data.ok, events |-> h.events, auth |-> h.auth,
     was |-> authenticated, now |-> auth, error |-> h.error,
     surfaced |-> h.surfaced, stop |-> h.stop, connected |-> conn,
     loop |-> after, reconnect |-> reconnect]

\* _receive_loop: one frame is taken from the link and handled.  fault says
\* that on_message raises an Exception instead of handling the message.
ReceiveFrame(l, fault) ==
    /\ l \in 1 .. Len(rl)
    /\ rl[l] = "run"
    /\ ~(stopc.pc /= "idle" /\ stopc.by = l)
    /\ inq[l] /= <<>>
    /\ LET item == Head(inq[l])
           data == Decode(item.f)
           h == IF data.ok /\ ~fault THEN HandleMessage(data) ELSE NoHandling
           after == LoopAfterFrame(data.ok, fault)
           evs == QueuedEvents(h.events, nextEvent)
       IN /\ ~h.stop
          /\ inq' = [inq EXCEPT ![l] = Tail(@)]
          /\ delivered' = IF data.ok
                             THEN Append(delivered, [id |-> item.id, link |-> l])
                             ELSE delivered
          /\ dropped' = IF data.ok THEN dropped
                                   ELSE dropped \cup {[id |-> item.id, link |-> l]}
          /\ event_queue' = event_queue \o evs
          /\ nextEvent' = nextEvent + Len(evs)
          /\ evKey' = [e \in DOMAIN evKey \cup {evs[i].id : i \in 1 .. Len(evs)} |->
                          IF e \in DOMAIN evKey THEN evKey[e]
                          ELSE evs[e - nextEvent].key]
          /\ authenticated' = IF h.auth THEN TRUE ELSE authenticated
          /\ rl' = [rl EXCEPT ![l] = after]
          /\ IF after = "ended" /\ ws_running
               THEN /\ rtasks' = Append(rtasks, [pc |-> "start", delay |-> 0,
                                                 k |-> 0, first |-> FALSE,
                                                 link |-> l])
                    /\ reconnect_task' = Len(rtasks) + 1
               ELSE UNCHANGED <<rtasks, reconnect_task>>
          /\ lastFrame' = FrameRecord(l, item, fault, data, h, after,
                                      Len(rtasks') > Len(rtasks),
                                      authenticated', connected)
    /\ UNCHANGED <<nextFrame, badIds>>
    /\ UNCHANGED <<handlers, ev_running, dispatch_pc, cur_event, tasks, nextReg,
                   dispatched, expected, invoked, onceReg, onceCalls, calls, raised>>
    /\ UNCHANGED <<subscriptions, connected, lastCall>>
    /\ UNCHANGED <<links, websocket, ws_running, receive_task, appc, lock,
                   cur_interval, sendLoops, disc, maxSent, lastAttempt, fails,
                   openedAfter, requeued>>
    /\ UNCHANGED <<queueVars, stopVars>>
    /\ UNCHANGED <<paceVars, ghostVars, srvVars>>

\* _receive_loop: an app_stopped message is taken from the link; the event
\* is emitted and _handle_message calls stop(), which runs in the loop's task
ReceiveStop(l) ==
    /\ l \in 1 .. Len(rl)
    /\ rl[l] = "run"
    /\ inq[l] /= <<>>
    /\ LET item == Head(inq[l])
           data == Decode(item.f)
           h == IF data.ok THEN HandleMessage(data) ELSE NoHandling
           evs == QueuedEvents(h.events, nextEvent)
       IN /\ h.stop
          /\ inq' = [inq EXCEPT ![l] = Tail(@)]
          /\ delivered' = Append(delivered, [id |-> item.id, link |-> l])
          /\ nextEvent' = nextEvent + Len(evs)
          /\ evKey' = [e \in DOMAIN evKey \cup {evs[i].id : i \in 1 .. Len(evs)} |->
                          IF e \in DOMAIN evKey THEN evKey[e]
                          ELSE evs[e - nextEvent].key]
          /\ StopBegin(l, event_queue \o evs)
          /\ lastFrame' = FrameRecord(l, item, FALSE, data, h, "run", FALSE,
                                      authenticated', connected')
    /\ UNCHANGED <<nextFrame, badIds, dropped>>
    /\ UNCHANGED <<handlers, dispatch_pc, cur_event, tasks, nextReg,
                   dispatched, expected, invoked, onceReg, onceCalls, calls, raised>>
    /\ UNCHANGED <<lastCall, queueVars, lastSend>>
    /\ UNCHANGED <<paceVars, ghostVars, srvVars>>

\* AppSession.start(): EventManager.start() creates the dispatch task unless
\* one is alive, then connect() is entered.  ConnectSucceed and
\* AppConnectFail end the call; the failure reaches the caller as SessionError.
SessionStart(a) ==
    /\ appc[a] = "idle"
    /\ stopc.pc = "idle"
    /\ IF dispatch_pc \in {"none", "done"}
         THEN ev_running' = TRUE /\ dispatch_pc' = "top"
         ELSE UNCHANGED <<ev_running, dispatch_pc>>
    /\ ConnectEnter(AppId(a))
    /\ appc' = [appc EXCEPT ![a] = IF ConnectPc = "return" THEN "idle"
                                                            ELSE ConnectPc]
    /\ UNCHANGED <<handlers, event_queue, cur_event, tasks, nextEvent, nextReg,
                   dispatched, expected, invoked, evKey, onceReg, onceCalls,
                   calls, raised>>
    /\ UNCHANGED <<links, rl, websocket, ws_running, receive_task, rtasks,
                   reconnect_task, cur_interval, sendLoops, disc, maxSent,
                   lastAttempt, fails, openedAfter, requeued>>
    /\ UNCHANGED <<sessVars, queueVars, inVars, stopVars>>
    /\ UNCHANGED <<paceVars, ghostVars, srvVars>>

(***************************************************************************)
(* MentraOSOutputTransport: the TTS audio path, and MP3StreamEncoder       *)
(*                                                                         *)
(* Durations are in hundredths of a second.  process_frame, stop, cancel   *)
(* and write_audio_frame run on one event loop and do not suspend while    *)
(* they touch the encoder.  finalize_stream is split into its file         *)
(* operations, so that a poller of the output directory sees the states    *)
(* in between; nothing else of the transport runs until it has returned.   *)
(***************************************************************************)
\* start_new_stream calls in one behaviour
MaxStreams == 2
\* TTS audio frames written to one stream
MaxChunks == 2
\* silent-frame tasks created in one behaviour
MaxSignals == 2
\* the same three bounds where the silent-frame tasks are scheduled
MaxSilentStreams == 2
MaxSilentChunks == 1
MaxSilentSignals == 2

\* frame.sample_rate of the TTS audio frames
SampleRate == 24000
\* frame_duration of _send_silent_frames: 0.02 s
FrameDuration == 2
\* the allowance for network and playback delays: 0.5 s
PlaybackBuffer == 50
\* bot_stopped_speaking_delay, the constructor's default: 2.5 s
BotStoppedSpeakingDelay == 250

\* len(frame.audio) of the TTS audio frames: 20 ms plus one byte
AudioLens == {961}
\* time.time() - _audio_start_time at a stop signal
ElapsedTimes == {297, 400}

StartOutcomes == {"ok", "encoder_fail", "open_fail"}
WriteOutcomes == {"data", "empty", "encode_fail", "write_fail"}
StepOutcomes == {"ok", "fail", "fail_close"}

NoEncoder == [encoder |-> FALSE, file_handle |-> 0, current_file |-> 0,
              fin |-> <<>>]

\* a name of the output directory: <stem>.generating exists (gen), <stem>
\* exists (final), a handle on the file is open, the file ends with the
\* tail the encoder flushed, and as history the frames and the samples
\* counted for the stream
NewFile(created) ==
    [gen |-> created, final |-> FALSE, open |-> created, tail |-> FALSE,
     chunks |-> 0, samples |-> 0]

NoPace == [op |-> "none", done |-> TRUE, active |-> FALSE, window |-> FALSE,
           changed |-> FALSE, opened |-> FALSE, openBefore |-> FALSE,
           encoded |-> FALSE, failed |-> FALSE, openAfter |-> FALSE,
           nameAfter |-> 0, activeAfter |-> FALSE, taskAfter |-> "none",
           samples |-> 0, elapsed |-> 0, frames |-> 0, played |-> FALSE]

PaceInit ==
    /\ tts_active = FALSE
    /\ current_tts_filename = 0
    /\ mp3 = NoEncoder
    /\ files = <<>>
    /\ audio_start_time = FALSE
    /\ total_audio_samples = 0
    /\ stasks = <<>>
    /\ silent_frames_task = 0
    /\ lastPace = NoPace

\* the transport is not inside finalize_stream
PacerIdle == mp3.fin = <<>>

\* the files a handle is open on
OpenFiles(fs) == { i \in 1 .. Len(fs) : fs[i].open }

\* MP3StreamEncoder.cleanup: the handle is closed and the fields are reset.
\* close() of a closed file object does nothing; a close() that raises has
\* released the descriptor, and leaves the fields as they are.
Cleanup(m, fs, closeOk) ==
    IF m.file_handle = 0
      THEN [mp3 |-> NoEncoder, files |-> fs]
    ELSE IF closeOk \/ ~fs[m.file_handle].open
      THEN [mp3 |-> NoEncoder,
            files |-> [fs EXCEPT ![m.file_handle].open = FALSE]]
    ELSE [mp3 |-> [m EXCEPT !.fin = <<>>],
          files |-> [fs EXCEPT ![m.file_handle].open = FALSE]]

\* MP3StreamEncoder.start_new_stream: the stem of the new stream, or 0 (None).
\* Stems differ when the streams start in different milliseconds.  The
\* fields are overwritten whatever they held; a handle that was open stays
\* open for as long as its object lives.
StartNewStream(m, fs, o) ==
    LET id == Len(fs) + 1 IN
    IF o = "ok"
      THEN [mp3 |-> [encoder |-> TRUE, file_handle |-> id, current_file |-> id,
                     fin |-> <<>>],
            files |-> Append(fs, NewFile(TRUE)), stem |-> id, failed |-> FALSE]
      ELSE LET c == Cleanup([m EXCEPT !.current_file = id], fs, TRUE)
           IN [mp3 |-> c.mp3, files |-> Append(c.files, NewFile(FALSE)),
               stem |-> 0, failed |-> TRUE]

\* MP3StreamEncoder.write_audio_chunk: encode, write, flush.  ok is the
\* value returned; nothing is cleaned up when a step raises.
WriteAudioChunk(m, fs, o) ==
    IF ~m.encoder \/ m.file_handle = 0
      THEN [files |-> fs, ok |-> FALSE, failed |-> FALSE, encoded |-> FALSE]
    ELSE LET h == m.file_handle IN
      IF o = "data" /\ fs[h].open
        THEN [files |-> fs, ok |-> TRUE, failed |-> FALSE, encoded |-> TRUE]
      ELSE IF o = "empty"
        THEN [files |-> fs, ok |-> FALSE, failed |-> FALSE, encoded |-> TRUE]
      ELSE IF o = "encode_fail"
        THEN [files |-> fs, ok |-> FALSE, failed |-> TRUE, encoded |-> FALSE]
      ELSE [files |-> fs, ok |-> FALSE, failed |-> TRUE, encoded |-> TRUE]

\* mutant: the final name is given before the tail is written
FinalizeOrder_RenameFirst == <<"rename", "write_tail", "close">>

\* MP3StreamEncoder.finalize_stream: the order of its file operations
FinalizeOrder == <<"write_tail", "close", "rename">>

\* finalize_stream has something to finalize
CanFinalize(m) == m.encoder /\ m.file_handle /= 0 /\ m.current_file /= 0

\* one file operation of finalize_stream on stream f
FinalizeOp(step, fs, f) ==
    IF step = "write_tail"
      THEN [fs EXCEPT ![f].tail = TRUE]
    ELSE IF step = "close" THEN [fs EXCEPT ![f].open = FALSE]
    ELSE [fs EXCEPT ![f].gen = FALSE, ![f].final = TRUE]

\* the same operation when it raises: the tail the encoder produced is not
\* written, a close() that raises has released the descriptor, a rename that
\* raises has renamed nothing
FinalizeOpFailed(step, fs, f) ==
    IF step = "close" THEN [fs EXCEPT ![f].open = FALSE] ELSE fs

\* mutant: every TTS audio frame is written
AcceptsAudio_Always(active) == TRUE

\* write_audio_frame handles a TTS audio frame only while _tts_active
AcceptsAudio(active) == active

\* mutant: every TTS audio frame starts a stream
NeedsNewStream_Always(name) == TRUE

\* write_audio_frame starts a stream when _current_tts_filename is not set
NeedsNewStream(name) == name = 0

\* write_audio_frame calls audio.play_audio for the frame that started a
\* stream, when write_audio_chunk returned True for it
PlayRequested(first, stem, ok) == first /\ stem /= 0 /\ ok

\* audio_duration - elapsed_time + 0.5 + bot_stopped_speaking_delay
TotalSilentDuration(samples, elapsed) ==
    (samples * 100) \div SampleRate - elapsed + PlaybackBuffer
        + BotStoppedSpeakingDelay

\* num_frames = int(duration / frame_duration)
NumFrames(duration) == duration \div FrameDuration

NewSilentTask(frames) ==
    [pc |-> "created", frames |-> frames, sent |-> 0, cancelled |-> FALSE,
     cut |-> 0]

\* a task that is done: nothing of it can be observed but done()
RetiredTask ==
    [pc |-> "done", frames |-> 0, sent |-> 0, cancelled |-> FALSE, cut |-> 0]

\* mutant: cancel() leaves the task running
CancelTask_Ignored(t) ==
    IF t.pc = "done" THEN t ELSE [t EXCEPT !.cancelled = TRUE, !.cut = t.sent]

\* Task.cancel(): a task that has not started never runs its body; a task
\* suspended in the loop gets CancelledError where it waits
CancelTask(t) ==
    IF t.pc = "done" THEN t
    ELSE IF t.pc = "created" THEN RetiredTask
    ELSE [t EXCEPT !.pc = "cancel", !.cancelled = TRUE, !.cut = t.sent]

\* if self._silent_frames_task and not self._silent_frames_task.done(): cancel
CancelSilentTask(ts, cur) ==
    [i \in 1 .. Len(ts) |-> IF i = cur THEN CancelTask(ts[i]) ELSE ts[i]]

\* the state of the task _silent_frames_task refers to
CurrentTask(ts, cur) == IF cur = 0 THEN "none" ELSE ts[cur].pc

\* the samples counted for the stream that is open
StreamSamples == IF current_tts_filename = 0 THEN 0
                 ELSE files[current_tts_filename].samples

\* what a call that has returned leaves behind
Returned(rec, fs, m, name, active, ts, cur) ==
    [rec EXCEPT !.done = TRUE, !.openAfter = OpenFiles(fs) /= {},
                !.nameAfter = name, !.activeAfter = active,
                !.taskAfter = CurrentTask(ts, cur),
                !.changed = \/ rec.changed
                            \/ <<fs, m, name, active, ts, cur>> /=
                               <<files, mp3, current_tts_filename, tts_active,
                                 stasks, silent_frames_task>>]

\* process_frame: a TTSStartedFrame
TTSStarted ==
    /\ PacerIdle
    /\ tts_active' = TRUE
    /\ lastPace' = Returned([NoPace EXCEPT !.op = "started",
                                           !.active = tts_active,
                                           !.window = TRUE],
                            files, mp3, current_tts_filename, TRUE, stasks,
                            silent_frames_task)
    /\ UNCHANGED <<current_tts_filename, mp3, files, audio_start_time,
                   total_audio_samples, stasks, silent_frames_task>>
    /\ UNCHANGED <<evVars, sessVars, queueVars, wsVars, inVars, stopVars,
                   ghostVars, srvVars>>

\* write_audio_frame: a TTSAudioRawFrame of len bytes.  so and wo are what
\* start_new_stream and write_audio_chunk meet.  The request to play the
\* stream, sent when the first chunk's write_audio_chunk returned True, is
\* the only suspension and nothing of the transport's state is touched
\* after it.
WriteAudioFrame(len, so, wo, maxStreams, maxChunks) ==
    /\ PacerIdle
    /\ LET rec == [NoPace EXCEPT !.op = "audio", !.active = tts_active,
                                 !.window = lastPace.window,
                                 !.openBefore = OpenFiles(files) /= {}]
       IN
       IF ~AcceptsAudio(tts_active)
         THEN /\ UNCHANGED <<current_tts_filename, mp3, files,
                             audio_start_time, total_audio_samples>>
              /\ lastPace' = Returned(rec, files, mp3, current_tts_filename,
                                      tts_active, stasks, silent_frames_task)
         ELSE LET first == NeedsNewStream(current_tts_filename)
                  n == len \div 2
                  st == IF first THEN StartNewStream(mp3, files, so)
                        ELSE [mp3 |-> mp3, files |-> files,
                              stem |-> current_tts_filename, failed |-> FALSE]
                  fs1 == IF st.stem = 0 THEN st.files
                         ELSE [st.files EXCEPT ![st.stem].chunks = @ + 1,
                                               ![st.stem].samples = @ + n]
                  w == IF st.stem = 0
                         THEN [files |-> fs1, ok |-> FALSE, failed |-> FALSE,
                               encoded |-> FALSE]
                         ELSE WriteAudioChunk(st.mp3, fs1, wo)
              IN /\ first => Len(files) < maxStreams
                 /\ ~first => files[current_tts_filename].chunks < maxChunks
                 /\ audio_start_time' = (first \/ audio_start_time)
                 /\ total_audio_samples' =
                        (IF first THEN 0 ELSE total_audio_samples) + n
                 /\ current_tts_filename' = st.stem
                 /\ mp3' = st.mp3
                 /\ files' = w.files
                 /\ lastPace' =
                       Returned([rec EXCEPT !.opened = first,
                                            !.encoded = w.encoded,
                                            !.failed = st.failed \/ w.failed,
                                            !.played = PlayRequested(first,
                                                          st.stem, w.ok),
                                            !.changed = TRUE],
                                w.files, st.mp3, st.stem, tts_active, stasks,
                                silent_frames_task)
    /\ UNCHANGED <<tts_active, stasks, silent_frames_task>>
    /\ UNCHANGED <<evVars, sessVars, queueVars, wsVars, inVars, stopVars,
                   ghostVars, srvVars>>

\* if self._current_tts_filename: finalize_stream(), then the name is
\* cleared.  rec is the history of the call, ts and cur its silent tasks.
FinalizeCurrent(rec, ts, cur) ==
    IF current_tts_filename /= 0 /\ CanFinalize(mp3)
      THEN /\ mp3' = [mp3 EXCEPT !.fin = FinalizeOrder]
           /\ UNCHANGED <<current_tts_filename, files>>
           /\ lastPace' = [rec EXCEPT !.done = FALSE, !.changed = TRUE]
      ELSE /\ current_tts_filename' = 0
           /\ UNCHANGED <<mp3, files>>
           /\ lastPace' = Returned(rec, files, mp3, 0, FALSE, ts, cur)

\* process_frame: a TTSStoppedFrame, e after _audio_start_time
TTSStopped(e, maxSignals) ==
    /\ PacerIdle
    /\ Len(stasks) < maxSignals
    /\ tts_active' = FALSE
    /\ LET total == TotalSilentDuration(total_audio_samples, e)
           start == audio_start_time /\ total_audio_samples > 0 /\ total > 0
           frames == IF start THEN NumFrames(total) ELSE 0
       IN /\ stasks' = IF start
                         THEN Append(CancelSilentTask(stasks, silent_frames_task),
                                     NewSilentTask(frames))
                         ELSE stasks
          /\ silent_frames_task' = IF start THEN Len(stasks) + 1
                                            ELSE silent_frames_task
          /\ FinalizeCurrent([NoPace EXCEPT !.op = "stopped",
                                            !.active = tts_active,
                                            !.samples = StreamSamples,
                                            !.elapsed = e,
                                            !.frames = frames],
                             stasks', silent_frames_task')
    /\ UNCHANGED <<audio_start_time, total_audio_samples>>
    /\ UNCHANGED <<evVars, sessVars, queueVars, wsVars, inVars, stopVars,
                   ghostVars, srvVars>>

\* cancel(frame) and stop(frame): op is "cancel" or "stop"
Interrupt(op) ==
    /\ PacerIdle
    /\ tts_active' = FALSE
    /\ stasks' = CancelSilentTask(stasks, silent_frames_task)
    /\ FinalizeCurrent([NoPace EXCEPT !.op = op, !.active = tts_active],
                       stasks', silent_frames_task)
    /\ UNCHANGED <<audio_start_time, total_audio_samples, silent_frames_task>>
    /\ UNCHANGED <<evVars, sessVars, queueVars, wsVars, inVars, stopVars,
                   ghostVars, srvVars>>

\* finalize_stream: its next file operation.  When one raises, cleanup()
\* runs and False is returned; o says whether the operation raises and
\* whether the close() of cleanup() raises too.  After the last one the
\* fields are reset, and the caller clears _current_tts_filename.
FinalizeStep(o) ==
    /\ mp3.fin /= <<>>
    /\ LET step == Head(mp3.fin)
           rest == Tail(mp3.fin)
           f == mp3.current_file
           ok == FinalizeOp(step, files, f)
           bad == Cleanup([mp3 EXCEPT !.fin = <<>>],
                          FinalizeOpFailed(step, files, f), o = "fail")
       IN IF o = "ok" /\ rest /= <<>>
            THEN /\ files' = ok
                 /\ mp3' = [mp3 EXCEPT !.fin = rest,
                                       !.file_handle = IF step = "close"
                                                         THEN 0 ELSE @]
                 /\ UNCHANGED <<current_tts_filename, lastPace>>
            ELSE LET fs1 == IF o = "ok" THEN ok ELSE bad.files
                     m1 == IF o = "ok" THEN NoEncoder ELSE bad.mp3
                 IN /\ files' = fs1
                    /\ mp3' = m1
                    /\ current_tts_filename' = 0
                    /\ lastPace' = Returned([lastPace EXCEPT !.failed = o /= "ok"],
                                            fs1, m1, 0, tts_active, stasks,
                                            silent_frames_task)
    /\ UNCHANGED <<tts_active, audio_start_time, total_audio_samples, stasks,
                   silent_frames_task>>
    /\ UNCHANGED <<evVars, sessVars, queueVars, wsVars, inVars, stopVars,
                   ghostVars, srvVars>>

\* _send_silent_frames: the task sends its next frame and sleeps, or has
\* sent them all and resets the audio tracking in its finally clause
SilentStep(i) ==
    /\ PacerIdle
    /\ stasks[i].pc \in {"created", "run"}
    /\ IF stasks[i].sent < stasks[i].frames
         THEN /\ stasks' = [stasks EXCEPT ![i].pc = "run", ![i].sent = @ + 1]
              /\ UNCHANGED <<audio_start_time, total_audio_samples>>
         ELSE /\ stasks' = [stasks EXCEPT ![i] = RetiredTask]
              /\ audio_start_time' = FALSE
              /\ total_audio_samples' = 0
    /\ UNCHANGED <<tts_active, current_tts_filename, mp3, files,
                   silent_frames_task, lastPace>>
    /\ UNCHANGED <<evVars, sessVars, queueVars, wsVars, inVars, stopVars,
                   ghostVars, srvVars>>

\* _send_silent_frames: CancelledError is raised where the task waits; the
\* finally clause resets the audio tracking
SilentCancelled(i) ==
    /\ PacerIdle
    /\ stasks[i].pc = "cancel"
    /\ stasks' = [stasks EXCEPT ![i] = RetiredTask]
    /\ audio_start_time' = FALSE
    /\ total_audio_samples' = 0
    /\ UNCHANGED <<tts_active, current_tts_filename, mp3, files,
                   silent_frames_task, lastPace>>
    /\ UNCHANGED <<evVars, sessVars, queueVars, wsVars, inVars, stopVars,
                   ghostVars, srvVars>>

\* C37: the write_audio_frame call that opens a stream issues the request to
\* play it, whatever the encoder returned for the first chunk, and no other
\* call issues one
C37_Original ==
    (lastPace.op = "audio" /\ lastPace.done) =>
        (lastPace.played <=> (lastPace.opened /\ lastPace.nameAfter /= 0))

\* the output transport with its encoder and its files; the silent-frame
\* tasks, which touch neither, are created and cancelled but not scheduled
PacerNext ==
    \/ TTSStarted
    \/ \E len \in AudioLens, so \in StartOutcomes, wo \in WriteOutcomes :
          WriteAudioFrame(len, so, wo, MaxStreams, MaxChunks)
    \/ \E e \in ElapsedTimes : TTSStopped(e, MaxSignals)
    \/ \E op \in {"cancel", "stop"} : Interrupt(op)
    \/ \E o \in StepOutcomes : FinalizeStep(o)

\* the output transport with its silent-frame tasks, interrupted by
\* cancel(); the encoder and the file operations of a chunk do not fail,
\* those of finalize_stream may
SilenceNext ==
    \/ TTSStarted
    \/ \E len \in AudioLens :
          WriteAudioFrame(len, "ok", "data", MaxSilentStreams, MaxSilentChunks)
    \/ \E e \in ElapsedTimes : TTSStopped(e, MaxSilentSignals)
    \/ Interrupt("cancel")
    \/ \E o \in {"ok", "fail"} : FinalizeStep(o)
    \/ \E i \in 1 .. Len(stasks) : SilentStep(i)
    \/ \E i \in 1 .. Len(stasks) : SilentCancelled(i)

(***************************************************************************)
(* AppServer: the session table and _cleanup_session                       *)
(***************************************************************************)
\* the session ids of the webhook requests (userId-packageName)
MaxUsers == 2
\* AppSession objects created in one behaviour
MaxSessions == 2
\* stop requests received in one behaviour
MaxStopRequests == 2

SessionIds == 1 .. MaxUsers

\* the callers of _cleanup_session: the webhook handler, AppServer.stop(),
\* and, as g > 0, the task of the g-th session created
WebhookCaller == 0
ShutdownCaller == -1

\* an AppSession and its _run_session task; as history the calls of
\* on_session_end for it and the deletions of its entry in _sessions
NewSession(id) ==
    [id |-> id, conn |-> FALSE, task |-> "created", ended |-> 0, removed |-> 0]

SrvInit ==
    /\ srv = [objs |-> <<>>, sessions |-> <<>>, session_tasks |-> <<>>,
              cleanups |-> <<>>, errors |-> 0]
    /\ shut = [pc |-> "idle", todo |-> <<>>]
    /\ stopReqs = 0

\* session_id in table, for _sessions and _session_tasks; a table holds the
\* sessions in the order of their insertion
InTable(tab, objs, id) == \E i \in 1 .. Len(tab) : objs[tab[i]].id = id

\* table[session_id]
Lookup(tab, objs, id) ==
    tab[CHOOSE i \in 1 .. Len(tab) : objs[tab[i]].id = id]

\* del table[session_id]
DelEntry(tab, objs, id) == SelectSeq(tab, LAMBDA g : objs[g].id /= id)

\* list(self._sessions.keys())
SessionKeys(s) == [i \in 1 .. Len(s.sessions) |-> s.objs[s.sessions[i]].id]

\* the sequence without its c-th element
DropAt(seq, c) == SubSeq(seq, 1, c - 1) \o SubSeq(seq, c + 1, Len(seq))

\* task.cancel() by caller: a task that has not started never runs, a task
\* that is suspended gets CancelledError where it waits, and a task that
\* cancels itself goes on to the end of _cleanup_session
CancelSessionTask(objs, g, caller) ==
    IF caller = g \/ objs[g].task \in {"done", "cancel_alive", "cancel_cleanup"}
      THEN objs
    ELSE IF objs[g].task = "created" THEN [objs EXCEPT ![g].task = "done"]
    ELSE IF objs[g].task = "alive" THEN [objs EXCEPT ![g].task = "cancel_alive"]
    ELSE [objs EXCEPT ![g].task = "cancel_cleanup"]

\* _cleanup_session, second part: the task listed for the id is cancelled
\* unless it is done, and its entry is deleted
CleanupTasks(s, id, caller) ==
    IF ~InTable(s.session_tasks, s.objs, id)
      THEN s
      ELSE LET g == Lookup(s.session_tasks, s.objs, id) IN
           [s EXCEPT !.objs = CancelSessionTask(s.objs, g, caller),
                     !.session_tasks = DelEntry(s.session_tasks, s.objs, id)]

\* _cleanup_session up to its first suspension: with the id in _sessions the
\* call is suspended in session.stop(), otherwise it runs to its end
CleanupEnter(s, id, caller) ==
    IF InTable(s.sessions, s.objs, id)
      THEN [s EXCEPT !.cleanups =
                Append(@, [id |-> id, gen |-> Lookup(s.sessions, s.objs, id),
                           caller |-> caller])]
      ELSE CleanupTasks(s, id, caller)

\* the call of caller is suspended in _cleanup_session
InCleanup(s, caller) ==
    \E c \in 1 .. Len(s.cleanups) : s.cleanups[c].caller = caller

\* _cleanup_session from the return of session.stop() to its end:
\* on_session_end is called, the entry of the id is deleted (KeyError when
\* there is none: the call raises), then the task part
CleanupLeave(s, c) ==
    LET rec == s.cleanups[c]
        rest == DropAt(s.cleanups, c)
        stopped == [s.objs EXCEPT ![rec.gen].conn = FALSE]
        ended == [stopped EXCEPT ![rec.gen].ended = @ + 1]
    IN IF ~InTable(s.sessions, ended, rec.id)
         THEN [state |-> [s EXCEPT !.objs = ended, !.cleanups = rest,
                                   !.errors = @ + 1],
               raised |-> TRUE]
         ELSE LET g == Lookup(s.sessions, ended, rec.id)
                  gone == [ended EXCEPT ![g].removed = @ + 1]
              IN [state |-> CleanupTasks(
                              [s EXCEPT !.objs = gone, !.cleanups = rest,
                                        !.sessions = DelEntry(s.sessions,
                                                              gone, rec.id)],
                              rec.id, rec.caller),
                  raised |-> FALSE]

\* the webhook, a session request: _create_session
CreateSession(id) ==
    /\ IF InTable(srv.sessions, srv.objs, id)
         THEN UNCHANGED srv
         ELSE /\ Len(srv.objs) < MaxSessions
              /\ LET g == Len(srv.objs) + 1 IN
                 srv' = [srv EXCEPT !.objs = Append(@, NewSession(id)),
                                    !.sessions = Append(@, g),
                                    !.session_tasks =
                                        Append(DelEntry(@, srv.objs, id), g)]
    /\ UNCHANGED <<shut, stopReqs>>
    /\ UNCHANGED <<evVars, sessVars, queueVars, wsVars, inVars, stopVars,
                   paceVars, ghostVars>>

\* _run_session: session.start() and on_session return, and the task enters
\* its keep-alive loop, or one of them raises and the finally clause calls
\* _cleanup_session
SessionTaskStart(g, ok) ==
    /\ g \in 1 .. Len(srv.objs)
    /\ srv.objs[g].task = "created"
    /\ IF ok
         THEN srv' = [srv EXCEPT !.objs[g].conn = TRUE, !.objs[g].task = "alive"]
         ELSE LET s1 == CleanupEnter(srv, srv.objs[g].id, g) IN
              srv' = [s1 EXCEPT !.objs[g].task =
                          IF InCleanup(s1, g) THEN "cleanup" ELSE "done"]
    /\ UNCHANGED <<shut, stopReqs>>
    /\ UNCHANGED <<evVars, sessVars, queueVars, wsVars, inVars, stopVars,
                   paceVars, ghostVars>>

\* the link of a session is lost or closed: session.is_connected is false
SessionDrop(g) ==
    /\ g \in 1 .. Len(srv.objs)
    /\ srv.objs[g].conn
    /\ srv' = [srv EXCEPT !.objs[g].conn = FALSE]
    /\ UNCHANGED <<shut, stopReqs>>
    /\ UNCHANGED <<evVars, sessVars, queueVars, wsVars, inVars, stopVars,
                   paceVars, ghostVars>>

\* _run_session: the keep-alive loop wakes and finds the session
\* disconnected, or CancelledError is raised in it; the finally clause
\* calls _cleanup_session
SessionTaskEnd(g) ==
    /\ g \in 1 .. Len(srv.objs)
    /\ \/ srv.objs[g].task = "alive" /\ ~srv.objs[g].conn
       \/ srv.objs[g].task = "cancel_alive"
    /\ LET s1 == CleanupEnter(srv, srv.objs[g].id, g) IN
       srv' = [s1 EXCEPT !.objs[g].task =
                   IF InCleanup(s1, g) THEN "cleanup" ELSE "done"]
    /\ UNCHANGED <<shut, stopReqs>>
    /\ UNCHANGED <<evVars, sessVars, queueVars, wsVars, inVars, stopVars,
                   paceVars, ghostVars>>

\* _run_session: CancelledError is raised in the finally clause, where the
\* task waits in _cleanup_session; the call is abandoned and the task ends
SessionTaskCancelled(g) ==
    /\ g \in 1 .. Len(srv.objs)
    /\ srv.objs[g].task = "cancel_cleanup"
    /\ srv' = [srv EXCEPT !.objs[g].task = "done",
                          !.cleanups = SelectSeq(@, LAMBDA r : r.caller /= g)]
    /\ UNCHANGED <<shut, stopReqs>>
    /\ UNCHANGED <<evVars, sessVars, queueVars, wsVars, inVars, stopVars,
                   paceVars, ghostVars>>

\* the webhook, a stop request: _cleanup_session when the id is in _sessions
StopRequest(id) ==
    /\ stopReqs < MaxStopRequests
    /\ stopReqs' = stopReqs + 1
    /\ srv' = IF InTable(srv.sessions, srv.objs, id)
                THEN CleanupEnter(srv, id, WebhookCaller)
                ELSE srv
    /\ UNCHANGED shut
    /\ UNCHANGED <<evVars, sessVars, queueVars, wsVars, inVars, stopVars,
                   paceVars, ghostVars>>

\* AppServer.stop(): the ids of _sessions are listed
ShutdownCall ==
    /\ shut.pc = "idle"
    /\ shut' = [pc |-> "run", todo |-> SessionKeys(srv)]
    /\ UNCHANGED <<srv, stopReqs>>
    /\ UNCHANGED <<evVars, sessVars, queueVars, wsVars, inVars, stopVars,
                   paceVars, ghostVars>>

\* AppServer.stop(): _cleanup_session for the next id of the list, or the
\* end of the list
ShutdownStep ==
    /\ shut.pc = "run"
    /\ ~InCleanup(srv, ShutdownCaller)
    /\ IF shut.todo = <<>>
         THEN /\ shut' = [shut EXCEPT !.pc = "done"]
              /\ UNCHANGED srv
         ELSE /\ shut' = [shut EXCEPT !.todo = Tail(@)]
              /\ srv' = CleanupEnter(srv, Head(shut.todo), ShutdownCaller)
    /\ UNCHANGED stopReqs
    /\ UNCHANGED <<evVars, sessVars, queueVars, wsVars, inVars, stopVars,
                   paceVars, ghostVars>>

\* session.stop() returns to the c-th suspended _cleanup_session call, which
\* runs to its end; a task that made the call ends, and an exception ends
\* AppServer.stop()
CleanupResume(c) ==
    /\ c \in 1 .. Len(srv.cleanups)
    /\ LET rec == srv.cleanups[c]
           out == CleanupLeave(srv, c)
       IN /\ rec.caller > 0 => srv.objs[rec.caller].task = "cleanup"
          /\ srv' = IF rec.caller > 0
                      THEN [out.state EXCEPT !.objs[rec.caller].task = "done"]
                      ELSE out.state
          /\ shut' = IF rec.caller = ShutdownCaller /\ out.raised
                       THEN [pc |-> "failed", todo |-> <<>>]
                       ELSE shut
    /\ UNCHANGED stopReqs
    /\ UNCHANGED <<evVars, sessVars, queueVars, wsVars, inVars, stopVars,
                   paceVars, ghostVars>>

\* the server: session requests, stop requests, the session tasks and
\* shutdown
ServerNext ==
    \/ \E id \in SessionIds : CreateSession(id)
    \/ \E g \in 1 .. Len(srv.objs), ok \in BOOLEAN : SessionTaskStart(g, ok)
    \/ \E g \in 1 .. Len(srv.objs) : SessionDrop(g)
    \/ \E g \in 1 .. Len(srv.objs) : SessionTaskEnd(g)
    \/ \E g \in 1 .. Len(srv.objs) : SessionTaskCancelled(g)
    \/ \E id \in SessionIds : StopRequest(id)
    \/ ShutdownCall
    \/ ShutdownStep
    \/ \E c \in 1 .. Len(srv.cleanups) : CleanupResume(c)

\* the sessions that are in neither table and in no _cleanup_session call
SessionsGone ==
    { g \in 1 .. Len(srv.objs) :
        /\ \A i \in 1 .. Len(srv.sessions) : srv.sessions[i] /= g
        /\ \A c \in 1 .. Len(srv.cleanups) : srv.cleanups[c].gen /= g }

\* C40: on_session_end is called once for a session and its entry is deleted
\* once, no _cleanup_session call fails on an entry that is gone, and
\* _sessions never holds two sessions of one id
C40_Original ==
    /\ \A g \in 1 .. Len(srv.objs) :
          /\ srv.objs[g].ended <= 1
          /\ srv.objs[g].removed <= 1
    /\ \A g \in SessionsGone :
          srv.objs[g].ended = 1 /\ srv.objs[g].removed = 1
    /\ srv.errors = 0
    /\ \A i, j \in 1 .. Len(srv.sessions) :
          srv.objs[srv.sessions[i]].id = srv.objs[srv.sessions[j]].id => i = j

(***************************************************************************)
(* Histories of EventManager.stop() and of the subscription updates sent   *)
(***************************************************************************)
NoRouterStop == [pc |-> "idle", waited |-> FALSE, inflight |-> FALSE,
                 invoked |-> <<>>]

NoWire == [link |-> 0, subs |-> {}]

GhostInit ==
    /\ routerStop = NoRouterStop
    /\ wireSubs = NoWire
    /\ wireFirst = [link |-> 0, type |-> ""]

\* mutant: stop() returns without waiting for the dispatch task
RouterStopReturns_Early(pc) == TRUE

\* await self._dispatch_task returns once the task is done
RouterStopReturns(pc) == pc \in {"none", "done"}

\* EventManager.start(), called while no stop() is waiting
RouterStart ==
    /\ routerStop.pc /= "waiting"
    /\ dispatch_pc \in {"none", "done"}
    /\ ev_running' = TRUE
    /\ dispatch_pc' = "top"
    /\ routerStop' = NoRouterStop
    /\ UNCHANGED <<handlers, event_queue, cur_event, tasks, nextEvent, nextReg,
                   dispatched, expected, invoked, evKey, onceReg, onceCalls,
                   calls, raised>>
    /\ UNCHANGED <<sessVars, queueVars, wsVars, inVars, stopVars, paceVars,
                   wireSubs, wireFirst, srvVars>>

\* EventManager.stop(), called from outside the handlers: _running is
\* cleared; while the dispatch task is alive the sentinel is queued and the
\* task is awaited, otherwise the call returns at once
RouterStopCall ==
    /\ routerStop.pc /= "waiting"
    /\ calls < MaxCalls
    /\ calls' = calls + 1
    /\ ev_running' = FALSE
    /\ IF EventsStopWaits(dispatch_pc)
         THEN /\ event_queue' = Append(event_queue, Sentinel)
              /\ routerStop' = [pc |-> "waiting", waited |-> TRUE,
                                inflight |-> \E i \in 1 .. Len(tasks) :
                                                ~Finished(tasks[i]),
                                invoked |-> <<>>]
         ELSE /\ UNCHANGED event_queue
              /\ routerStop' = [pc |-> "returned", waited |-> FALSE,
                                inflight |-> FALSE, invoked |-> invoked]
    /\ UNCHANGED <<handlers, dispatch_pc, cur_event, tasks, nextEvent, nextReg,
                   dispatched, expected, invoked, evKey, onceReg, onceCalls,
                   raised>>
    /\ UNCHANGED <<sessVars, queueVars, wsVars, inVars, stopVars, paceVars,
                   wireSubs, wireFirst, srvVars>>

\* EventManager.stop(): the awaited dispatch task is done, the call returns
RouterStopReturn ==
    /\ routerStop.pc = "waiting"
    /\ RouterStopReturns(dispatch_pc)
    /\ routerStop' = [routerStop EXCEPT !.pc = "returned", !.invoked = invoked]
    /\ UNCHANGED <<evVars, sessVars, queueVars, wsVars, inVars, stopVars,
                   paceVars, wireSubs, wireFirst, srvVars>>

\* a handler task that was suspended resumes and calls EventManager.stop():
\* _running is cleared, the sentinel is queued (the dispatch task, which is
\* waiting in gather for this handler, is not done) and the handler awaits
\* the dispatch task
HandlerStopCall(i) ==
    /\ i \in 1 .. Len(tasks)
    /\ tasks[i].st = "suspended"
    /\ calls < MaxCalls
    /\ calls' = calls + 1
    /\ ev_running' = FALSE
    /\ IF EventsStopWaits(dispatch_pc)
         THEN /\ event_queue' = Append(event_queue, Sentinel)
              /\ tasks' = [tasks EXCEPT ![i].st = "stopping"]
         ELSE /\ UNCHANGED event_queue
              /\ tasks' = [tasks EXCEPT ![i].st = "done"]
    /\ UNCHANGED <<handlers, dispatch_pc, cur_event, nextEvent, nextReg,
                   dispatched, expected, invoked, evKey, onceReg, onceCalls,
                   raised>>
    /\ UNCHANGED <<sessVars, queueVars, wsVars, inVars, stopVars, paceVars,
                   ghostVars, srvVars>>

\* the callers of stop(): 0 is the application, i > 0 the handler task i
StopCallers == 0 .. MaxCalls

\* EventManager.stop(): the awaited dispatch task is done and the call of
\* caller c returns; a handler that called it then returns too
EvStopReturn(c) ==
    IF c = 0
      THEN RouterStopReturn
      ELSE /\ c \in 1 .. Len(tasks)
           /\ tasks[c].st = "stopping"
           /\ RouterStopReturns(dispatch_pc)
           /\ tasks' = [tasks EXCEPT ![c].st = "done"]
           /\ UNCHANGED <<handlers, ev_running, event_queue, dispatch_pc,
                          cur_event, nextEvent, nextReg, dispatched, expected,
                          invoked, evKey, onceReg, onceCalls, calls, raised>>
           /\ UNCHANGED <<sessVars, queueVars, wsVars, inVars, stopVars,
                          paceVars, ghostVars, srvVars>>

\* the event manager with stop() called by the application and by handlers
HandlerStopNext ==
    \/ RouterStart
    \/ RouterStopCall
    \/ \E c \in StopCallers : EvStopReturn(c)
    \/ \E x \in TopicArgs, f \in Callables : On(x, f)
    \/ \E x \in TopicArgs : Emit(x)
    \/ LoopTop
    \/ LoopTimeout
    \/ LoopGet
    \/ \E i \in 1 .. Len(tasks) :
          \E o \in {"suspended", "done", "failed"} : HandlerStart(i, o)
    \/ \E i \in 1 .. Len(tasks) :
          \E o \in {"done", "failed"} : HandlerResume(i, o)
    \/ \E i \in 1 .. Len(tasks) : HandlerStopCall(i)
    \/ GatherDone

\* the event loop runs every task that is ready: the dispatch loop, the
\* handler tasks and the callers of stop() whose awaited task is done
HandlerStopFairness ==
    /\ WF_vars(LoopTop) /\ WF_vars(LoopTimeout) /\ WF_vars(LoopGet)
    /\ WF_vars(GatherDone)
    /\ WF_vars(\E c \in StopCallers : EvStopReturn(c))
    /\ WF_vars(\E i \in 1 .. Len(tasks) : HandlerStart(i, "done"))
    /\ WF_vars(\E i \in 1 .. Len(tasks) : HandlerResume(i, "done"))

\* a handler task is inside a stop() call that has not returned
HandlerInStop == \E i \in 1 .. Len(tasks) : tasks[i].st = "stopping"

\* C36: a stop() call made from within a handler that the dispatch loop is
\* running eventually returns
C36_Original == HandlerInStop ~> ~HandlerInStop

\* the event manager with start() and stop() calls that return
RouterNext ==
    \/ RouterStart
    \/ RouterStopCall
    \/ RouterStopReturn
    \/ \E x \in TopicArgs, f \in Callables : On(x, f)
    \/ \E x \in TopicArgs : Emit(x)
    \/ LoopTop
    \/ LoopTimeout
    \/ LoopGet
    \/ \E i \in 1 .. Len(tasks) :
          \E o \in {"suspended", "done", "failed"} : HandlerStart(i, o)
    \/ \E i \in 1 .. Len(tasks) :
          \E o \in {"done", "failed"} : HandlerResume(i, o)
    \/ GatherDone

\* a session with its subscription calls, its links, the acknowledgments of
\* the peer and its send loops; the client is never told to stop, so no
\* send loop ends
SnapshotNext ==
    \/ \E t \in SubTopics : Subscribe(t)
    \/ \E t \in SubTopics : Unsubscribe(t)
    \/ \E a \in AppCallers : SessionStart(a)
    \/ \E a \in AppCallers : ConnectSucceed(AppId(a), MaxLinks)
    \/ \E l \in 1 .. Len(links) : LinkDrop(l)
    \/ \E l \in 1 .. Len(links) : ReceiveEnd(l)
    \/ \E r \in 1 .. Len(rtasks) : ReconnectStart(r)
    \/ \E r \in 1 .. Len(rtasks) : ReconnectConnect(r)
    \/ \E r \in 1 .. Len(rtasks) : ConnectSucceed(RecId(r), MaxLinks)
    \/ \E l \in 1 .. Len(links) :
          Arrive(l, TextFrame(TPA_CONNECTION_ACK, "", FALSE), MaxAcks)
    \/ \E l \in 1 .. Len(links) : ReceiveFrame(l, FALSE)
    \/ SendLoopTransmit
    \/ SendLoopWake

\* the outbound path of a session whose links are closed by the peer, lost
\* and opened again; the client is never told to stop
OutboundNext ==
    \/ \E a \in AppCallers : AppConnect(a)
    \/ \E a \in AppCallers : ConnectSucceed(AppId(a), MaxLinks)
    \/ \E l \in 1 .. Len(links) : PeerClose(l)
    \/ \E l \in 1 .. Len(links) : LinkDrop(l)
    \/ \E l \in 1 .. Len(links) : ReceiveEnd(l)
    \/ \E r \in 1 .. Len(rtasks) : ReconnectStart(r)
    \/ \E r \in 1 .. Len(rtasks) : ReconnectConnect(r)
    \/ \E r \in 1 .. Len(rtasks) : ConnectSucceed(RecId(r), MaxLinks)
    \/ AppSend
    \/ SendLoopFirst
    \/ SendLoopWake

\* connect() and disconnect() called by the application, and link loss
AppLinkNext(maxLinks) ==
    \/ \E a \in AppCallers : AppConnect(a)
    \/ \E a \in AppCallers : AppConnectFail(a)
    \/ \E a \in AppCallers : ConnectSucceed(AppId(a), maxLinks)
    \/ \E l \in 1 .. Len(links) : LinkDrop(l)
    \/ DisconnectCall
    \/ DisconnectFinish

\* the end of a receive loop and the _reconnect tasks, failed attempts aside
ReconnectNext(maxLinks) ==
    \/ \E l \in 1 .. Len(links) : ReceiveEnd(l)
    \/ \E r \in 1 .. Len(rtasks) : ReconnectStart(r)
    \/ \E r \in 1 .. Len(rtasks) : ReconnectConnect(r)
    \/ \E r \in 1 .. Len(rtasks) : ConnectSucceed(RecId(r), maxLinks)

\* the outbound path: AppSession.send and the send loops
SendNext ==
    \/ AppSend
    \/ SendLoopIter
    \/ SendLoopTimeout
    \/ SendLoopWake

BackoffNext ==
    \/ AppLinkNext(MaxLinks)
    \/ ReconnectNext(MaxLinks)
    \/ \E r \in 1 .. Len(rtasks) : ReconnectFail(r, MaxFails)

RetryNext ==
    \/ AppLinkNext(MaxLinks)
    \/ ReconnectNext(MaxLinks)
    \/ \E r \in 1 .. Len(rtasks) : ReconnectFail(r, MaxRetries)

\* as AppLinkNext and ReconnectNext, with the on_disconnect callbacks counted
DisconnectNext ==
    \/ \E a \in AppCallers : AppConnect(a)
    \/ \E a \in AppCallers : AppConnectFail(a)
    \/ \E a \in AppCallers : ConnectSucceed(AppId(a), MaxLinks)
    \/ \E l \in 1 .. Len(links) : LinkDrop(l)
    \/ CountedDisconnectCall
    \/ CountedDisconnectFinish
    \/ ReconnectNext(MaxLinks)

ConnectNext ==
    \/ AppLinkNext(MaxLinksConnect)
    \/ ReconnectNext(MaxLinksConnect)

SendSpecNext ==
    \/ AppLinkNext(MaxLinks)
    \/ SendNext

\* one link after another, each with its frames and its receive loop
ReceiveNext ==
    \/ \E a \in AppCallers : AppConnect(a)
    \/ \E a \in AppCallers : AppConnectFail(a)
    \/ \E a \in AppCallers : ConnectSucceed(AppId(a), MaxLinksInbound)
    \/ \E l \in 1 .. Len(links) : LinkDrop(l)
    \/ \E l \in 1 .. Len(links) : ReceiveEnd(l)
    \/ \E l \in 1 .. Len(links), f \in TransportFrames :
          Arrive(l, f, MaxFrames)
    \/ \E l \in 1 .. Len(links), fault \in BOOLEAN : ReceiveFrame(l, fault)

\* a session: start(), the frames of its links, and the dispatch loop with
\* no handler registered
InboundNext ==
    \/ \E a \in AppCallers : SessionStart(a)
    \/ \E a \in AppCallers : AppConnectFail(a)
    \/ \E a \in AppCallers : ConnectSucceed(AppId(a), MaxLinksInbound)
    \/ \E l \in 1 .. Len(links) : LinkDrop(l)
    \/ \E l \in 1 .. Len(links) : ReceiveEnd(l)
    \/ \E l \in 1 .. Len(links), f \in SessionFrames \cup {AppStoppedFrame} :
          Arrive(l, f, MaxSessionFrames)
    \/ \E l \in 1 .. Len(links) : ReceiveFrame(l, FALSE)
    \/ \E l \in 1 .. Len(links) : ReceiveStop(l)
    \/ StopAfterEvents
    \/ StopFinish
    \/ StopAbort
    \/ LoopTop
    \/ LoopTimeout
    \/ LoopGet

\* a session that is started, subscribed (while it is not connected),
\* authenticated and stopped, with its link and its dispatch loop
StopNext ==
    \/ \E a \in AppCallers : SessionStart(a)
    \/ \E a \in AppCallers : ConnectSucceed(AppId(a), MaxLinksStop)
    \/ \E l \in 1 .. Len(links) : LinkDrop(l)
    \/ stopc.pc = "idle" /\ ~connected /\ Subscribe("audio_chunk")
    \/ \E l \in 1 .. Len(links) :
          Arrive(l, TextFrame(TPA_CONNECTION_ACK, "", FALSE), MaxAcks)
    \/ \E l \in 1 .. Len(links) : ReceiveFrame(l, FALSE)
    \/ LoopTop
    \/ LoopTimeout
    \/ LoopGet
    \/ StopCall
    \/ StopAfterEvents
    \/ StopFinish

\* a session that is started and stopped, with the tasks of its transport
StopTasksNext ==
    \/ \E a \in AppCallers : SessionStart(a)
    \/ \E a \in AppCallers : ConnectSucceed(AppId(a), MaxLinksStop)
    \/ \E l \in 1 .. Len(links) : LinkDrop(l)
    \/ \E l \in 1 .. Len(links) : ReceiveEnd(l)
    \/ \E r \in 1 .. Len(rtasks) : ReconnectStart(r)
    \/ \E r \in 1 .. Len(rtasks) : ReconnectConnect(r)
    \/ SendLoopIter
    \/ SendLoopTimeout
    \/ SendLoopWake
    \/ LoopTop
    \/ LoopTimeout
    \/ LoopGet
    \/ StopCall
    \/ StopAfterEvents
    \/ StopFinish

Init ==
    /\ EvInit /\ SessInit /\ QueueInit /\ WsInit /\ InInit /\ StopInit
    /\ PaceInit /\ GhostInit /\ SrvInit

\* the event manager alone
SpecEvents == Init /\ [][EvNext]_vars

\* the session's subscription calls; the transport is any sequence of its
\* callbacks
SpecSession == Init /\ [][SessNext]_vars

\* SpecBackoff: link loss and reconnect with failing attempts.
\* SpecConnect: concurrent connect() and disconnect() callers, no failing
\*   reconnect attempt, one link more than in the other specifications.
\* SpecSend: the outbound path.  Links are opened by the application's
\*   connect() calls; the receive loops and reconnect tasks, whose variables
\*   the outbound path never reads, are not scheduled.
SpecBackoff == Init /\ [][BackoffNext]_vars

\* the same with fairness: a sleep of a _reconnect task ends and the event loop
\* runs a task that is ready
ReconnectFairness ==
    \A r \in 1 .. MaxLinks :
        WF_vars(ReconnectStart(r)) /\ WF_vars(ReconnectConnect(r))

SpecReconnect == Init /\ [][RetryNext]_vars /\ ReconnectFairness

\* connect, disconnect and reconnect, with the callbacks counted
SpecDisconnect == Init /\ [][DisconnectNext]_vars

SpecConnect == Init /\ [][ConnectNext]_vars

\* the receive loops and the frames of the transport
SpecReceive == Init /\ [][ReceiveNext]_vars

\* a session and the messages it receives
SpecInbound == Init /\ [][InboundNext]_vars

\* AppSession.stop() called by the application
SpecStop == Init /\ [][StopNext]_vars

\* AppSession.stop() and the background tasks
SpecStopTasks == Init /\ [][StopTasksNext]_vars

SpecSend == Init /\ [][SendSpecNext]_vars

SpecOutbound == Init /\ [][OutboundNext]_vars

SpecRouter == Init /\ [][RouterNext]_vars

\* AppServer and its sessions
SpecServer == Init /\ [][ServerNext]_vars

\* stop() called from handlers, under a fair event loop
SpecHandlerStop == Init /\ [][HandlerStopNext]_vars /\ HandlerStopFairness

SpecSnapshot == Init /\ [][SnapshotNext]_vars

SpecPacer == Init /\ [][PacerNext]_vars

SpecSilence == Init /\ [][SilenceNext]_vars

(***************************************************************************)
(* Claims about the event manager                                          *)
(***************************************************************************)

\* C1: the dispatch loop dequeues the events in the order of the emit()
\* calls (event ids are given in emit order), one at a time: every handler
\* task that has not completed or failed belongs to the event dequeued last,
\* and the loop is waiting in gather for it.
C1_DispatchOrder ==
    /\ \A i \in 1 .. Len(dispatched) : dispatched[i] = i
    /\ \A i \in 1 .. Len(tasks) :
          ~Finished(tasks[i]) =>
             /\ dispatch_pc = "gather"
             /\ tasks[i].ev = cur_event.id
             /\ tasks[i].ev = dispatched[Len(dispatched)]

\* two events of different keys were dequeued, the first one had a handler,
\* and a handler of the second one is suspended
C1_Witness ==
    /\ Len(dispatched) = 2
    /\ evKey[1] /= evKey[2]
    /\ expected[1] >= 1
    /\ \E i \in 1 .. Len(tasks) : tasks[i].ev = 2 /\ tasks[i].st = "suspended"

\* an event whose dispatch is over (the loop has left gather for it)
Handled(e) == e /= cur_event.id \/ dispatch_pc /= "gather"

\* C2: when the loop has finished with an event, every handler that was
\* registered for its key at dequeue time has been invoked for it, whether or
\* not some of them raised; a failed handler leaves the loop waiting in
\* gather (it does not end the loop).
C2_HandlerIsolation ==
    /\ \A e \in DOMAIN expected : Handled(e) => invoked[e] = expected[e]
    /\ \A i \in 1 .. Len(tasks) : tasks[i].st = "failed" => dispatch_pc = "gather"

\* a handler of event 1 raised, both handlers of event 1 were invoked, and
\* event 2 was then dispatched to a handler
C2_Witness ==
    /\ Len(dispatched) = 2
    /\ expected[1] = 2 /\ invoked[1] = 2
    /\ expected[2] >= 1 /\ invoked[2] >= 1
    /\ 1 \in raised

\* the first event of key k dequeued after `at` events had been dequeued
FirstAfter(k, at) ==
    LET js == { j \in (at + 1) .. Len(dispatched) : evKey[dispatched[j]] = k }
    IN  IF js = {} THEN 0
        ELSE dispatched[CHOOSE j \in js : \A j2 \in js : j <= j2]

\* C3: a wrapper made by once() is invoked at most one time, and then for the
\* first event of its key that is dequeued after its registration.
C3_OnceAtMostOnce ==
    \A w \in DOMAIN onceCalls :
       /\ Len(onceCalls[w]) <= 1
       /\ Len(onceCalls[w]) = 1 =>
             onceCalls[w][1] = FirstAfter(onceReg[w].key, onceReg[w].at)

\* a once-wrapper ran for event 1, and event 2 of the same key, queued behind
\* it, has been dispatched too
C3_Witness ==
    /\ Len(dispatched) = 2
    /\ evKey[1] = evKey[2]
    /\ \E w \in DOMAIN onceCalls : onceCalls[w] = <<1>> /\ onceReg[w].at = 0
    /\ Handled(2)

(***************************************************************************)
(* Claims about subscriptions                                              *)
(***************************************************************************)

\* the last call was one that leaves the set as it was
NoOpCall ==
    \/ lastCall.op = "subscribe" /\ lastCall.topic \in lastCall.before
    \/ lastCall.op = "unsubscribe" /\ lastCall.topic \notin lastCall.before

\* the last call was one that changes the set
ChangingCall ==
    \/ lastCall.op = "subscribe" /\ lastCall.topic \notin lastCall.before
    \/ lastCall.op = "unsubscribe" /\ lastCall.topic \in lastCall.before

\* C4: subscribe with a topic already in the set, and unsubscribe with a
\* topic not in the set, leave the set unchanged and send no message.
C4_SubscriptionNoOp ==
    NoOpCall => lastCall.after = lastCall.before /\ lastCall.msgs = <<>>

\* subscribe was called, while connected, with a topic that was already in a
\* set of two topics
C4_Witness ==
    /\ lastCall.op = "subscribe"
    /\ lastCall.topic \in lastCall.before
    /\ lastCall.before = SubTopics
    /\ lastCall.conn

\* the call sent exactly one update, which lists the set as it is after the
\* call
OneFullUpdate ==
    /\ Len(lastCall.msgs) = 1
    /\ lastCall.msgs[1].type = "subscription_update"
    /\ lastCall.msgs[1].subs = lastCall.after

\* C5 as stated: every call that changes the set sends exactly one update
\* listing the full set after the change.
C5_Original == ChangingCall => OneFullUpdate

\* C5, amended: a call that changes the set sends exactly one update listing
\* the full set after the change if the session is connected (_connected),
\* and sends nothing if it is not.
C5_SubscriptionChange ==
    ChangingCall =>
       /\ lastCall.after = IF lastCall.op = "subscribe"
                             THEN lastCall.before \cup {lastCall.topic}
                             ELSE lastCall.before \ {lastCall.topic}
       /\ IF lastCall.conn THEN OneFullUpdate ELSE lastCall.msgs = <<>>

\* a connected session subscribed to a second topic: one update with both
C5_Witness ==
    /\ lastCall.op = "subscribe"
    /\ lastCall.conn
    /\ Cardinality(lastCall.before) = 1
    /\ Cardinality(lastCall.after) = 2
    /\ Len(lastCall.msgs) = 1

(***************************************************************************)
(* WebSocketClient: claims                                                 *)
(***************************************************************************)
\* min(initial * decay^k, max), in 1/Scale seconds
ClosedForm(k) ==
    Min((reconnect_interval * DecayNum ^ k) \div DecayDen ^ k,
        max_reconnect_interval)

Sleeping == { r \in 1 .. Len(rtasks) : rtasks[r].pc = "sleep" }

\* C6: with initial 5 s, decay 1.5 and max 60 s, the delay a reconnect task
\* sleeps when k reconnect attempts have failed in a row since the last
\* successful connect is min(5 * 1.5^k, 60); the stored interval follows the
\* same closed form, which does not decrease with k and never exceeds max.
C6_BackoffDelay ==
    /\ cur_interval = ClosedForm(fails)
    /\ \A r \in Sleeping :
          /\ rtasks[r].delay = ClosedForm(rtasks[r].k)
          /\ rtasks[r].delay <= max_reconnect_interval
          /\ rtasks[r].k > 0 =>
                ClosedForm(rtasks[r].k - 1) <= rtasks[r].delay

\* a reconnect task sleeps the capped delay for the second time in a row
C6_Witness ==
    \E r \in Sleeping :
        /\ rtasks[r].k = MaxFails
        /\ rtasks[r].delay = max_reconnect_interval
        /\ ClosedForm(rtasks[r].k - 1) = max_reconnect_interval
        /\ ClosedForm(rtasks[r].k - 2) < max_reconnect_interval

\* a reconnect task in the first sleep of its life
FirstSleep == { r \in Sleeping : rtasks[r].first }

\* C7 as stated: every successful connect() resets the reconnect interval, so
\* the reconnect task started after the next link loss first sleeps the
\* initial interval.
C7_Original ==
    \A r \in FirstSleep : rtasks[r].delay = reconnect_interval

\* C8 as stated: whatever connect() callers run concurrently (application
\* callers and reconnect tasks), at most one physical link is open at any
\* time.
C8_Original == Cardinality(OpenLinks) <= 1

\* C9: a send loop transmits the message it took only if the channel is
\* connected at that moment (the link is then open, never closed or absent);
\* if the channel is disconnected the message is back at the tail of the
\* queue and the loop sleeps before it tries again.
C9_SendGating ==
    /\ lastAttempt.outcome = "sent" =>
          lastAttempt.conn /\ lastAttempt.link = "open"
    /\ lastAttempt.outcome /= "none" /\ ~lastAttempt.conn =>
          /\ lastAttempt.outcome = "requeued"
          /\ lastAttempt.tail
          /\ lastAttempt.slept
    /\ requeued \subseteq { send_queue[i].id : i \in 1 .. Len(send_queue) }

\* a message was taken while the link was closed and put back
C9_Witness ==
    /\ lastAttempt.outcome = "requeued"
    /\ lastAttempt.link = "closed"
    /\ maxSent > 0
    /\ sendLoops.sleep > 0

\* C10: messages are transmitted in the order they were enqueued (ids follow
\* the enqueue order), except that a message put back at the tail can be
\* transmitted after a message enqueued later.
C10_OutboundOrder ==
    /\ lastAttempt.late => lastAttempt.requeued
    /\ \A i, j \in 1 .. Len(send_queue) :
          i < j /\ send_queue[i].id > send_queue[j].id =>
              send_queue[j].id \in requeued

\* a message that was put back is transmitted after a later one
C10_Witness ==
    /\ lastAttempt.outcome = "sent"
    /\ lastAttempt.late
    /\ lastAttempt.requeued

\* the ids of the frames taken from their link
Taken == { d.id : d \in dropped } \cup { delivered[i].id : i \in 1 .. Len(delivered) }

\* C11: a text frame that is not valid JSON, or a frame whose on_message
\* raises, is dropped alone: right after it the receive loop still runs and
\* no reconnect task was started; every frame taken from a link was passed
\* to on_message unless it was malformed text, and on_message sees the
\* frames of one link in their order of arrival.
C11_MalformedDroppedAlone ==
    /\ lastFrame.id /= 0 => lastFrame.loop = "run" /\ ~lastFrame.reconnect
    /\ { d.id : d \in dropped } = Taken \cap badIds
    /\ { delivered[i].id : i \in 1 .. Len(delivered) } = Taken \ badIds
    /\ \A i, j \in 1 .. Len(delivered) :
          i < j /\ delivered[i].link = delivered[j].link =>
              delivered[i].id < delivered[j].id

\* a malformed frame was dropped, a frame made on_message raise, and a frame
\* that came later on the link of the malformed one was passed on
C11_Witness ==
    /\ lastFrame.fault
    /\ \E d \in dropped, i \in 1 .. Len(delivered) :
          d.link = delivered[i].link /\ d.id < delivered[i].id

\* a receive loop ends in this step
LoopEnds(l) == rl[l] /= "ended" /\ rl'[l] = "ended"

\* a _reconnect task ends in this step
TaskEnds(r) == rtasks[r].pc /= "done" /\ rtasks'[r].pc = "done"

\* where the r-th _reconnect task is
TaskPc(r) == IF r <= Len(rtasks) THEN rtasks[r].pc ELSE "none"

\* C12: a receive loop that ends starts a _reconnect task exactly when
\* _running is set (disconnect() was not called since the last connect); a
\* _reconnect task ends only when the channel is connected or _running is
\* cleared; and, under fairness, no task stays for ever where it was created
\* or in a backoff sleep: it goes on to call connect(), or it ends.
C12_ReconnectLiveness ==
    /\ [][/\ \A l \in 1 .. Len(rl) :
               LoopEnds(l) => (Len(rtasks') = Len(rtasks) + 1 <=> ws_running)
          /\ \A r \in 1 .. Len(rtasks) :
               TaskEnds(r) => IsConnected' \/ ~ws_running']_vars
    /\ \A r \in 1 .. MaxLinks :
          []<>(TaskPc(r) \notin {"start", "sleep"})

\* a _reconnect task is in connect() again after two failed attempts
C12_Witness ==
    /\ fails >= 2
    /\ ws_running
    /\ \E r \in 1 .. Len(rtasks) : rtasks[r].pc = "opening"

\* C13 as stated: over the disconnect() calls that follow one connection the
\* on_disconnect callback fires one time in total, so its count since the
\* last successful connect never exceeds one.
C13_Original == links /= <<>> => cb <= 1

\* the last frame handled was a connection acknowledgment
AckHandled(error) ==
    /\ lastFrame.id /= 0
    /\ lastFrame.called /\ ~lastFrame.fault
    /\ lastFrame.f.enc = "text"
    /\ lastFrame.f.type = TPA_CONNECTION_ACK
    /\ lastFrame.f.error = error

\* C14: handling a connection acknowledgment that carries an error field
\* leaves _authenticated as it was, and _authenticated goes from false to
\* true only in a step that handles an acknowledgment with no error field.
C14_AckErrorNeverAuthenticates ==
    /\ [](AckHandled(TRUE) => lastFrame.now = lastFrame.was)
    /\ [][~authenticated /\ authenticated' =>
             /\ lastFrame' /= lastFrame
             /\ AckHandled(FALSE)']_vars

\* an acknowledgment with an error field was handled on a connected session
\* that was not authenticated, and it still is not
C14_Witness ==
    /\ AckHandled(TRUE)
    /\ ~lastFrame.was
    /\ ~authenticated
    /\ connected

\* C15 as stated: when an acknowledgment with an error field is handled,
\* AuthenticationError leaves the handler towards the caller of start() and
\* the session does not stay connected.
C15_Original ==
    AckHandled(TRUE) => lastFrame.surfaced /\ ~lastFrame.connected

\* what C16 states for a frame: the types of the events emitted
StatedEvents(f) ==
    IF f.enc = "bytes" THEN <<"audio_chunk">>
    ELSE IF f.type = "data_stream" /\ f.streamType = "transcription"
      THEN <<"transcription">>
    ELSE IF f.type = TPA_CONNECTION_ACK THEN <<>>
    ELSE <<f.type>>

\* C16 as stated: every frame passed to _handle_message is classified by the
\* first matching rule, and a message that matches none of the first four
\* rules gives exactly one event carrying its payload.
C16_Original ==
    lastFrame.id /= 0 /\ lastFrame.called /\ ~lastFrame.fault =>
        /\ lastFrame.events = StatedEvents(lastFrame.f)
        /\ lastFrame.stop <=> lastFrame.f.type = "app_stopped"

\* C17 as stated: a call of AppSession.send made while is_connected is false
\* adds nothing to the outbound queue.
C17_Original ==
    lastSend.called /\ ~lastSend.isconn => ~lastSend.enqueued

\* C18: stop() clears the subscriptions, then stops the event manager, then
\* disconnects the transport: while stop() waits for the dispatch task the
\* set is empty, _running of the event manager is cleared and disconnect()
\* has not begun; and disconnect() is entered, by every stop() in progress
\* and by every stop() that returned, with the set cleared and the dispatch
\* task absent or done.
C18_StopOrder ==
    /\ stopc.pc = "events" =>
          /\ subscriptions = {}
          /\ ~ev_running
          /\ disc.pc = "idle"
    /\ stopc.pc = "closing" => stopc.cleared /\ stopc.router = "stopped"
    /\ disc.pc = "closing" => stopc.pc = "closing"
    /\ lastStop.times > 0 => lastStop.cleared /\ lastStop.router = "stopped"

\* stop() is inside disconnect(), waiting for the link to close, after it
\* waited for a dispatch task that is now done
C18_Witness ==
    /\ stopc.pc = "closing"
    /\ dispatch_pc = "done"
    /\ links[disc.link] = "closing"

\* C19: every stop() that returns, whatever the state it was called in and
\* however many returned before, leaves an empty subscription set,
\* _connected false and _authenticated false.
C19_StopRepeatable ==
    lastStop.times > 0 =>
        /\ ~lastStop.subs
        /\ ~lastStop.connected
        /\ ~lastStop.authenticated

\* a second stop() has returned on a session that had been subscribed,
\* connected and authenticated before the first one
C19_Witness ==
    /\ lastStop.times = 2
    /\ lastCall.op = "subscribe"
    /\ lastFrame.auth
    /\ stopc.pc = "idle"
    /\ websocket = 0

\* C20 as stated: when stop() returns, the dispatch loop, the send loops, the
\* receive loops and the reconnect tasks have all ended.
C20_Original ==
    lastStop.times > 0 =>
        /\ ~lastStop.dispatch
        /\ ~lastStop.send
        /\ ~lastStop.receive
        /\ ~lastStop.reconnect

\* the last frame handled was an app_stopped message, the stop() it started
\* is no longer in progress, the loop that handled it has ended and no link
\* was opened since
AppStoppedHandled ==
    /\ lastFrame.stop
    /\ lastFrame.link = Len(links)
    /\ stopc.pc = "idle"
    /\ rl[lastFrame.link] = "ended"

\* C21 as stated: once an app_stopped message has been handled the teardown
\* is complete: the link is closed, _websocket is None, on_disconnect has
\* run and the session is neither connected nor authenticated.
C21_Original ==
    AppStoppedHandled =>
        /\ links[lastFrame.link] = "closed"
        /\ websocket = 0
        /\ cb >= 1
        /\ ~connected
        /\ ~authenticated

\* C22 as stated: the dispatch loop ends by taking the sentinel out of the
\* queue, so once the loop has ended no event is left in the queue in front
\* of a sentinel (such an event was queued before the stop() that queued
\* the sentinel).
C22_Original ==
    dispatch_pc = "done" =>
        \A i, j \in 1 .. Len(event_queue) :
            i < j /\ event_queue[j] = Sentinel => event_queue[i] = Sentinel


\* C23: when EventManager.stop(), called from outside the handlers, has
\* returned, the dispatch task has finished, no handler invocation that the
\* dispatch loop started is still running, and no handler has been invoked
\* since the return.
C23_StopWaitsForHandlers ==
    routerStop.pc = "returned" =>
        /\ dispatch_pc \in {"none", "done"}
        /\ \A i \in 1 .. Len(tasks) : Finished(tasks[i])
        /\ invoked = routerStop.invoked

\* stop() waited for the dispatch task while a handler invocation was
\* suspended, and has returned
C23_Witness ==
    /\ routerStop.pc = "returned"
    /\ routerStop.waited
    /\ routerStop.inflight
    /\ invoked /= <<>>

\* C24: the encoder holds at most one open backing file, every open file is
\* the one the encoder holds and the transport names, and an audio frame
\* that meets an open stream is written to it: no second stream is opened.
C24_OneOpenStream ==
    /\ Cardinality(OpenFiles(files)) <= 1
    /\ OpenFiles(files) \subseteq {mp3.current_file}
    /\ PacerIdle => OpenFiles(files) \subseteq {current_tts_filename}
    /\ (lastPace.op = "audio" /\ lastPace.opened) => ~lastPace.openBefore

\* an accepted audio frame met the open stream of an earlier frame, after
\* an earlier stream had been finalized
C24_Witness ==
    /\ lastPace.op = "audio"
    /\ lastPace.active
    /\ lastPace.openBefore
    /\ ~lastPace.opened
    /\ Len(files) = 2
    /\ files[1].final

\* the frames the silence of a stream is worth
ExpectedSilentFrames(samples, elapsed) ==
    IF TotalSilentDuration(samples, elapsed) > 0
      THEN NumFrames(TotalSilentDuration(samples, elapsed))
      ELSE 0

\* C25 as stated: on the stop signal of a stream with at least one sample,
\* the silent task that is created is given floor(total_silence / 0.02)
\* frames when total_silence > 0, and no frame is scheduled otherwise.
C25_Original ==
    (lastPace.op = "stopped" /\ lastPace.samples > 0) =>
        lastPace.frames = ExpectedSilentFrames(lastPace.samples,
                                               lastPace.elapsed)

\* C38: while a stream is open, and so at its stop signal, the start time
\* of the audio tracking is set and the samples counted are those of the
\* frames written to that stream, whatever the silent-frame tasks of earlier
\* streams do meanwhile
C38_Original ==
    current_tts_filename /= 0 =>
        /\ audio_start_time
        /\ total_audio_samples = StreamSamples

\* the streams that have ended: neither the transport nor the encoder
\* refers to them any more
EndedStreams ==
    { i \in 1 .. Len(files) : i /= current_tts_filename /\ i /= mp3.current_file }

\* C39: once a stream has ended, for whatever reason, its .generating file
\* no longer exists
C39_Original == \A i \in EndedStreams : ~files[i].gen

\* C26: when cancel() has returned, _tts_active is cleared, the silent task
\* is neither waiting to start nor running, no file is open and no stream
\* is named; a cancelled task has sent no frame after its cancellation, and
\* only the current task can be alive.
C26_CancelClearsPacer ==
    /\ (lastPace.op = "cancel" /\ lastPace.done) =>
            /\ ~lastPace.activeAfter
            /\ lastPace.taskAfter \notin {"created", "run"}
            /\ ~lastPace.openAfter
            /\ lastPace.nameAfter = 0
    /\ \A i \in 1 .. Len(stasks) :
            /\ stasks[i].cancelled => stasks[i].sent = stasks[i].cut
            /\ i /= silent_frames_task => stasks[i].pc \notin {"created", "run"}

\* cancel() returned after it cancelled a silent task that had sent some
\* of its frames and finalized the stream that was open
C26_Witness ==
    /\ lastPace.op = "cancel"
    /\ lastPace.done
    /\ lastPace.changed
    /\ silent_frames_task /= 0
    /\ stasks[silent_frames_task].cancelled
    /\ stasks[silent_frames_task].sent >= 1
    /\ stasks[silent_frames_task].sent < stasks[silent_frames_task].frames
    /\ Len(files) = 2
    /\ files[2].final

\* C27: the final name of a stream exists only once the flushed tail is in
\* the file and the file is closed, and then the .generating name is gone.
C27_FinalIsComplete ==
    \A i \in 1 .. Len(files) :
        files[i].final =>
            /\ files[i].tail
            /\ ~files[i].open
            /\ ~files[i].gen

\* a stream with two chunks was finalized
C27_Witness ==
    \E i \in 1 .. Len(files) :
        /\ files[i].final
        /\ files[i].chunks = 2
        /\ lastPace.done
        /\ ~lastPace.failed

\* C28: an audio frame is accepted exactly between a TTSStartedFrame and
\* the next TTSStoppedFrame, cancel or stop; only an accepted frame opens a
\* stream or is encoded, and a frame outside the window changes nothing.
C28_AudioOnlyInWindow ==
    lastPace.op = "audio" =>
        /\ lastPace.active = lastPace.window
        /\ (lastPace.opened \/ lastPace.encoded) => lastPace.window
        /\ ~lastPace.window =>
              /\ ~lastPace.changed
              /\ ~lastPace.opened
              /\ ~lastPace.encoded

\* an audio frame arrived after the stop signal of a stream and was ignored
C28_Witness ==
    /\ lastPace.op = "audio"
    /\ ~lastPace.window
    /\ lastPace.done
    /\ Len(files) >= 1
    /\ files[1].final

\* C29 as stated: when a call in which the encoder or a file operation
\* failed has returned, no file is open and no stream is named.
C29_Original ==
    (lastPace.done /\ lastPace.failed) =>
        /\ ~lastPace.openAfter
        /\ lastPace.nameAfter = 0

\* C30 as stated: whenever the session is connected and acknowledged and
\* its send queue is empty, the last subscription update sent on the
\* current link lists the subscription set; no update on the link is
\* allowed only while the set is empty.
C30_Original ==
    (connected /\ IsConnected /\ authenticated /\ send_queue = <<>>) =>
        \/ wireSubs.link = websocket /\ wireSubs.subs = subscriptions
        \/ wireSubs.link /= websocket /\ subscriptions = {}


\* C31 as stated: at most one _send_loop task of the client is alive, waiting
\* in get or asleep after a requeue.
C31_Original == sendLoops.get + sendLoops.sleep <= 1


\* no connect() and no disconnect() is in progress
CallsReturned ==
    /\ disc.pc = "idle"
    /\ lock = Free
    /\ \A a \in AppCallers : appc[a] = "idle"
    /\ \A r \in 1 .. Len(rtasks) : rtasks[r].pc \notin {"waitlock", "opening"}

\* C32 as stated: once the connect() and disconnect() calls have returned,
\* a client whose is_connected is false holds no link that is not closed,
\* and so no receive loop reading from one.
C32_Original ==
    (CallsReturned /\ ~IsConnected) =>
        \A l \in 1 .. Len(links) : links[l] = "closed"


\* C33 as stated: _authenticated is true only while _websocket refers to a
\* link that is open, or whose loss its receive loop has not seen yet, and a
\* frame, here always an acknowledgment without error, was handled on that
\* link.
C33_Original ==
    authenticated =>
        /\ websocket /= 0
        /\ links[websocket] = "open" \/ rl[websocket] = "run"
        /\ \E i \in 1 .. Len(delivered) : delivered[i].link = websocket


\* C34 as stated: the first message transmitted on a link is the
\* tpa_connection_init message that on_connect queued for it.
C34_Original ==
    wireFirst.link /= 0 => wireFirst.type = "tpa_connection_init"

\* C35 as stated: while the channel is running, a message that a send loop
\* took off the queue and did not transmit is in the queue again.
C35_Original ==
    (ws_running /\ lastAttempt.outcome \in {"raised", "requeued"}) =>
        lastAttempt.tail

====
